---- MODULE Spec2Model ----
(***************************************************************************)
(* The batch translation pipeline of subtitle-tools (package translate):   *)
(* translateBatches and its goroutines (workers, the queue feeder), one    *)
(* runOneBatch per dequeued batch with its batch-level retry loop, the     *)
(* transport retry loop of requestWithRetry, the shared rate limiter, the  *)
(* error slot errCh and the shared cancellation context.                   *)
(* The functions the pipeline is built from are modelled next to it, each  *)
(* with a specification of its own that draws its inputs and applies it:   *)
(* validateParsedBatch (ValidateSpec); buildBatches and buildBatch with    *)
(* the wire encoding of FormatOneForTranslation (BatchSpec, BatchFairSpec);*)
(* TranslateBatch with requestWithRetry and the rotation of API keys, on a *)
(* client that other workers use at the same time (TransportSpec);         *)
(* computeBackoff (BackoffSpec); ParseTranslatedLines with its tiers of    *)
(* strict and repairing parsers, on texts as sequences of characters       *)
(* (ParseSpec); FormatOneForTranslation followed by ParseTranslatedLines   *)
(* (RoundTripSpec); extractIdxAndTextBestEffort (ExtractSpec);            *)
(* extractJSONObjectSegmentsWithOffsets (SegmentsSpec); computeBackoff    *)
(* with positive delays and no jitter (PlainBackoffSpec); Run, from the   *)
(* validation of its options to the written document (RunSpec).           *)
(* JobSpec runs the pipeline against the mock servers of the package's     *)
(* tests, which answer by a fixed handler and count their calls; CountSpec *)
(* runs one worker against a service that is free to answer anything and   *)
(* counts the requests it gets for each batch.                             *)
(***************************************************************************)
EXTENDS Integers, Sequences, FiniteSets, TLC

\* ------------------------------------------------------------------ bounds

\* Largest number of batches handed to translateBatches.
NumBatches == 2

\* Largest transport retry budget (Options.RetryMaxAttempts) explored.
MaxTransportAttempts == 2

\* Largest idx a decoded line carries in the calls of validateParsedBatch.
MaxValId == 4

\* Longest batch handed to validateParsedBatch.
MaxValLen == 2

\* Longest decoded output handed to validateParsedBatch.
MaxParsedLen == 3

\* Largest number of records handed to buildBatches.
MaxRecords == 3

\* Largest character budget (Options.MaxBatchChars) handed to buildBatches.
MaxBudget == 64

\* Largest number of API keys configured on the client.
MaxKeys == 2

\* Largest RetryOptions.MaxAttempts of the calls of TranslateBatch.
MaxAttempts == 3

\* Largest number of 2xx responses other workers get during one call.
MaxOtherResponses == 1

\* Largest small number of seconds in a Retry-After header.
MaxRetryAfter == 2

\* Width in bits of the signed word a duration is kept in (64 in the program).
DurBits == 6

\* Largest attempt number handed to computeBackoff.
MaxBackoffAttempt == 7

\* Largest small BaseDelay and MaxDelay of a policy, in units of 500 ms.
MaxPolicyDelay == 2

\* Jitter of a policy is a multiple of 1 / JitterDen.
JitterDen == 2

\* A draw of jitterFloat64 is a multiple of 1 / DrawDen.
DrawDen == 4

\* Largest number of records handed to FormatForTranslation.
MaxRoundTripRecords == 2

\* Largest length of the text of a single record handed to
\* FormatForTranslation.
MaxRoundTripLen == 2

\* Largest idx of a record handed to FormatForTranslation.
MaxRoundTripIdx == 10

\* Largest number of lines of an output handed to ParseTranslatedLines.
MaxLines == 2

\* By how much the longest line of an output exceeds AbbreviationMax.
MaxOverLength == 2

\* Largest idx of an object handed to extractIdxAndTextBestEffort.
MaxExtractIdx == 2

\* Largest number of pieces of the text of such an object.
MaxExtractLen == 3

\* Longest text handed to extractJSONObjectSegmentsWithOffsets on its own.
MaxSegmentLen == 5

\* Largest value of a budget of Options explored; the smallest is its negative.
MaxOption == 1

\* Largest number of records in the document Run reads.
MaxSubs == 2

\* ------------------------------------------------------- program constants

\* 500 * time.Millisecond, in units of 500 ms.
FallbackBaseDelay == 1

\* 10 * time.Second, in units of 500 ms.
FallbackMaxDelay == 20

\* DefaultMaxWorkers: the worker pool size.
MaxWorkers == 2

\* DefaultParseRetryMaxAttempts: the batch-level retry budget.
RetryParseMaxAttempts == 2

\* cap(errCh): errCh := make(chan error, 1).
ErrChCap == 1

\* AbbreviationMax: the longest excerpt of a line in an error.
AbbreviationMax == 250

VARIABLES
    nb,               \* len(batches)
    nWorkers,         \* opts.MaxWorkers
    rpsOn,            \* opts.RPS > 0
    retryMax,         \* client.RetryOptions.MaxAttempts
    parentErr,        \* Err() of the caller's context
    ctxErr,           \* Err() of the context derived by context.WithCancel
    fpc, fnext,       \* enqueueBatches: position, index of the next batch
    remaining,        \* the remaining-batches counter
    wpc,              \* each worker's position
    wbatch,           \* the batch a worker holds (0: none)
    wattempt,         \* runOneBatch: attempt
    wtry,             \* requestWithRetry: attempt
    wungated,         \* history: with a limiter, a request for the held batch
                      \* started without a limiter.Wait of its own
    wparsed,          \* runOneBatch: validated
    wmi,              \* index of the next line to merge
    werr,             \* the error a worker's runOneBatch returned, until reported
    translatedMu,     \* holder of the mutex (0: unlocked)
    translatedTexts,  \* the Job Result Map
    errCh,            \* the buffered error channel
    mpc, retMap, retErr,   \* translateBatches: position and its return values
    accepted,         \* history: batches whose response validateParsedBatch accepted
    firstReported,    \* history: the first error handed to reportWorkerErrorAndCancel
    ownCancel,        \* history: a worker has called cancel()
    outOfOrder,       \* history: a batch was merged before an earlier batch
    lateDequeued,     \* history: batches dequeued after the context was cancelled
    mock,             \* the handler of the mock server the job talks to
                      \* ("none": a service free to answer anything)
    calls             \* the mock's count of the calls for each batch

\* One call of validateParsedBatch.
VARIABLES
    vpc,              \* position: "call" before the call, "done" after it
    vIdxs,            \* b.idxs
    vParsed,          \* the decoded output
    vOut              \* the return values

dispatchVars ==
    <<nb, nWorkers, rpsOn, retryMax, parentErr, ctxErr, fpc, fnext,
      remaining, wpc, wbatch, wattempt, wtry, wungated, wparsed, wmi,
      werr, translatedMu, translatedTexts, errCh, mpc, retMap, retErr,
      accepted, firstReported, ownCancel, outOfOrder, lateDequeued, mock,
      calls>>

validatorVars == <<vpc, vIdxs, vParsed, vOut>>

\* One call of buildBatches.
VARIABLES
    bpc,              \* position: "loop" in buildBatches, "batch" in buildBatch
    bSubs,            \* subs: the records, each with Idx and Text
    bMax,             \* maxBatchChars
    bStart,           \* buildBatches: start (0-based, as in the code)
    bI,               \* buildBatch: i
    bChars,           \* buildBatch: chars
    bIdxs, bTexts,    \* buildBatch: idxs, texts
    bBatches          \* buildBatches: batches

batcherVars == <<bpc, bSubs, bMax, bStart, bI, bChars, bIdxs, bTexts, bBatches>>

\* One call of TranslateBatch, on a client that other workers use too.
VARIABLES
    tnKeys,           \* len(keys)
    tMaxAttempts,     \* c.RetryOptions.MaxAttempts
    apiKeyRR,         \* c.apiKeyRR
    tCancelled,       \* ctx.Err() != nil
    tpc,              \* requestWithRetry: position
    tattempt,         \* requestWithRetry: attempt
    rotatedOnReject,  \* TranslateBatch: rotatedOnReject
    tkey,             \* index of the key of the latest request
    tres,             \* the return of the call: done, and its error
    tcalls,           \* history: number of calls of do
    tfirstKey,        \* history: index of the key of the call's first request
    trejKey,          \* history: key of the latest request if it was rejected, or -1
    tlast,            \* history: error and retry of the latest decision
    tpolicy,          \* c.RetryOptions: BaseDelay, MaxDelay, Jitter
    tsleep,           \* the delay of the sleepWithContext under way, or -1
    tretryAfter,      \* history: the Retry-After of the response slept after
    tothers           \* history: 2xx responses other workers got meanwhile

transportVars ==
    <<tnKeys, tMaxAttempts, apiKeyRR, tCancelled, tpc, tattempt,
      rotatedOnReject, tkey, tres, tcalls, tfirstKey, trejKey, tlast, tpolicy,
      tsleep, tretryAfter, tothers>>

\* One call of computeBackoff.
VARIABLES
    kpc,              \* position in computeBackoff
    kAttempt,         \* attempt
    kBaseDelay,       \* o.BaseDelay, in units of 500 ms
    kMaxDelay,        \* o.MaxDelay, in units of 500 ms
    kJitter,          \* o.Jitter, in units of 1 / JitterDen
    kDraw,            \* what jitterFloat64 returns, in units of 1 / DrawDen
    kD                \* d

backoffVars == <<kpc, kAttempt, kBaseDelay, kMaxDelay, kJitter, kDraw, kD>>

\* One call of ParseTranslatedLines on the text of an output.
VARIABLES
    ppc,              \* position in ParseTranslatedLines
    pRaw,             \* out, as passed
    pOut,             \* out, after the head of the function
    pTried,           \* the tiers run so far, in order
    pLast,            \* what the tier run last returned
    pRes              \* what ParseTranslatedLines returns

parserVars == <<ppc, pRaw, pOut, pTried, pLast, pRes>>

\* FormatForTranslation, and ParseTranslatedLines on what it wrote.
VARIABLES
    rtpc,             \* position: before the format, before the parse, done
    rtIdxs,           \* idxs
    rtTexts,          \* texts
    rtWire,           \* what FormatForTranslation returned
    rtRes             \* what ParseTranslatedLines returned

roundTripVars == <<rtpc, rtIdxs, rtTexts, rtWire, rtRes>>

\* One call of extractIdxAndTextBestEffort on an object whose text holds its
\* quotes unescaped.
VARIABLES
    xpc,              \* position: before the call, done
    xIdx,             \* the idx the object was written for
    xText,            \* the text the object was written for, piece by piece
    xObj,             \* obj
    xRes              \* what extractIdxAndTextBestEffort returned

extractVars == <<xpc, xIdx, xText, xObj, xRes>>

formatVars == <<parserVars, roundTripVars, extractVars>>

\* One call of Run.
VARIABLES
    runpc,            \* position in Run
    runOpts,          \* opts
    runSubs,          \* subs, once read
    runTexts,         \* translatedTexts, as translateBatches returned it
    runOut,           \* outSubs
    runErr,           \* the error Run returns
    runDone           \* history: what Run and its workers have done so far

runVars == <<runpc, runOpts, runSubs, runTexts, runOut, runErr, runDone>>

\* One call of extractJSONObjectSegmentsWithOffsets.
VARIABLES
    gpc,              \* position: before the call, done
    gText,            \* s
    gRes              \* the segments returned

segmentVars == <<gpc, gText, gRes>>

\* The state of Run and of the segment scanner.
restVars == <<runVars, segmentVars>>

\* The state of the functions modelled next to the dispatcher.
unitVars ==
    <<validatorVars, batcherVars, transportVars, backoffVars, formatVars,
      restVars>>

vars == <<dispatchVars, unitVars>>

\* ------------------------------------------------------------- data model

Workers == 1..nWorkers

BatchIds == 1..NumBatches

\* Records carry sequential ids 1..n (srt.ValidateSequentialIdx / srt.Reindex)
\* and buildBatches cuts them into contiguous slices: batch b holds two records.
batchIdxs(b) == <<2 * b - 1, 2 * b>>

SeqToSet(s) == {s[i] : i \in 1..Len(s)}

\* expected := make(map[int]struct{}); for _, id := range b.idxs { expected[id] = {} }
expectedOf(b) == SeqToSet(batchIdxs(b))

batchOf(id) == (id + 1) \div 2

AllIds == UNION {expectedOf(b) : b \in BatchIds}

\* The text the service gives for record id in its response to batch b.
Translated(b, id) == <<b, id>>

\* One line of a response body: a well-formed wire item or a broken line.
WireLine(b, id) == [ok |-> TRUE, Idx |-> id, Text |-> Translated(b, id)]

JunkLine == [ok |-> FALSE, Idx |-> 0, Text |-> <<0, 0>>]

\* An id that belongs to another batch.
foreignId(b) == IF b = 1 THEN 3 ELSE 1

\* The contents the service may answer a request for batch b with.
GoodBody(b) == <<WireLine(b, batchIdxs(b)[1]), WireLine(b, batchIdxs(b)[2])>>

PermutedBody(b) == <<WireLine(b, batchIdxs(b)[2]), WireLine(b, batchIdxs(b)[1])>>

MissingBody(b) == <<WireLine(b, batchIdxs(b)[1])>>

DuplicateBody(b) == <<WireLine(b, batchIdxs(b)[1]), WireLine(b, batchIdxs(b)[1])>>

ForeignBody(b) == <<WireLine(b, batchIdxs(b)[1]), WireLine(b, foreignId(b))>>

JunkBody(b) == <<WireLine(b, batchIdxs(b)[1]), JunkLine>>

ZeroIdxBody(b) == <<WireLine(b, 0), WireLine(b, batchIdxs(b)[2])>>

Bodies(b) == {GoodBody(b), PermutedBody(b), MissingBody(b), DuplicateBody(b),
              ForeignBody(b), JunkBody(b), ZeroIdxBody(b)}

\* What one HTTP request can come back with: a 2xx with content, a retryable
\* failure (429, 5xx, timeout, empty content) or a failure that is not retryable.
Outcomes(b) == {[kind |-> "ok", body |-> c] : c \in Bodies(b)}
               \cup {[kind |-> "retryable", body |-> <<>>],
                     [kind |-> "fatal", body |-> <<>>]}

\* ----------------------------------------------------------------- errors

\* An error value: its kind, the batch it is about, the batch-level attempt that
\* produced it, and whether it wraps another error (errors.Is sees through).
NoErr == [kind |-> "nil", batch |-> 0, attempt |-> 0, wrapped |-> FALSE]

\* ctx.Err(): context.Canceled.
CtxError(e) == [kind |-> e, batch |-> 0, attempt |-> 0, wrapped |-> FALSE]

\* The *url.Error wrapping ctx.Err() that an aborted request returns.
AbortedError(e) == [kind |-> e, batch |-> 0, attempt |-> 0, wrapped |-> TRUE]

\* "translation api error: status=... body=...", or a network error.
TransportError(b) == [kind |-> "transport", batch |-> b, attempt |-> 0, wrapped |-> FALSE]

\* The error of ParseTranslatedLines.
DecodeError(b, attempt) ==
    [kind |-> "decode", batch |-> b, attempt |-> attempt, wrapped |-> FALSE]

\* The error of validateParsedBatch.
ValidationError(b, attempt) ==
    [kind |-> "validation", batch |-> b, attempt |-> attempt, wrapped |-> FALSE]

\* errors.Is(err, context.Canceled)
IsCanceled(e) == e.kind = "canceled"

\* ------------------------------------------------------ decode and validate

\* ParseTranslatedLines at the granularity of lines: an empty output, a line that
\* is no wire item and an idx <= 0 are errors; otherwise the items, in order.
ParseTranslatedLines(out) ==
    IF Len(out) = 0 THEN [err |-> TRUE, lines |-> <<>>]
    ELSE IF \E i \in 1..Len(out) : ~out[i].ok THEN [err |-> TRUE, lines |-> <<>>]
    ELSE IF \E i \in 1..Len(out) : out[i].Idx <= 0 THEN [err |-> TRUE, lines |-> <<>>]
    ELSE [err |-> FALSE,
          lines |-> [i \in 1..Len(out) |-> [Idx |-> out[i].Idx, Text |-> out[i].Text]]]

\* The loop of validateParsedBatch over parsed[1..n]: "seen" after n lines, and
\* whether a line was unexpected or a duplicate.
RECURSIVE seenAfter(_, _, _)
seenAfter(expected, parsed, n) ==
    IF n = 0 THEN [fail |-> FALSE, seen |-> {}]
    ELSE LET prev == seenAfter(expected, parsed, n - 1)
         IN IF prev.fail THEN prev
            ELSE IF parsed[n].Idx \notin expected THEN [fail |-> TRUE, seen |-> prev.seen]
            ELSE IF parsed[n].Idx \in prev.seen THEN [fail |-> TRUE, seen |-> prev.seen]
            ELSE [fail |-> FALSE, seen |-> prev.seen \cup {parsed[n].Idx}]

\* A validation that compares only the number of lines with the batch size.
validateCountOnly(expected, idxs, parsed) ==
    IF Len(parsed) # Len(idxs) THEN [err |-> TRUE, lines |-> <<>>]
    ELSE [err |-> FALSE, lines |-> parsed]

\* A validation that compares the count and the number of distinct idxs only.
validateDistinctCount(expected, idxs, parsed) ==
    IF Len(parsed) # Len(idxs) THEN [err |-> TRUE, lines |-> <<>>]
    ELSE IF Cardinality({parsed[i].Idx : i \in 1..Len(parsed)}) # Cardinality(expected)
    THEN [err |-> TRUE, lines |-> <<>>]
    ELSE [err |-> FALSE, lines |-> parsed]

validateParsedBatch(expected, idxs, parsed) ==
    IF Len(parsed) # Len(idxs) THEN [err |-> TRUE, lines |-> <<>>]
    ELSE LET r == seenAfter(expected, parsed, Len(parsed))
         IN IF r.fail THEN [err |-> TRUE, lines |-> <<>>]
            ELSE IF Cardinality(r.seen) # Cardinality(expected)
                 THEN [err |-> TRUE, lines |-> <<>>]
            ELSE [err |-> FALSE, lines |-> parsed]

\* A merge that appends the text under the next free position instead of pl.Idx.
mergeLineAppend(m, pl) ==
    LET k0 == Cardinality(DOMAIN m) + 1
    IN [k \in DOMAIN m \cup {k0} |-> IF k = k0 THEN pl.Text ELSE m[k]]

\* translatedTexts[pl.Idx] = pl.Text
mergeLine(m, pl) ==
    [k \in DOMAIN m \cup {pl.Idx} |-> IF k = pl.Idx THEN pl.Text ELSE m[k]]

\* A retry test that gives up one attempt early.
canRetryParseEarly(attempt) == attempt + 1 < RetryParseMaxAttempts

\* attempt < parseRetry.MaxAttempts
canRetryParse(attempt) == attempt < RetryParseMaxAttempts

\* A retry test that allows one attempt more than the budget.
canRetryRequestOneMore(try) == try <= retryMax

\* d.retry && attempt < o.MaxAttempts
canRetryRequest(try) == try < retryMax

\* A send on an error channel without a bound.
sendErrUnbounded(ch, err) == Append(ch, err)

\* A send that replaces what the channel holds.
sendErrLatest(ch, err) == <<err>>

\* select { case errCh <- err: default: }
sendErr(ch, err) == IF Len(ch) < ErrChCap THEN Append(ch, err) ELSE ch

\* select { case err := <-errCh: return err; default: return nil }
firstErr(ch) == IF Len(ch) > 0 THEN Head(ch) ELSE NoErr

\* nonCanceledContextErr(ctx)
nonCanceledContextErr(e) ==
    IF e = "nil" THEN NoErr
    ELSE IF e = "canceled" THEN NoErr
    ELSE CtxError(e)

\* cancel(): the first cause of a context's end stays its Err().
cancelled(e) == IF e = "nil" THEN "canceled" ELSE e

\* A wait that returns when the first worker is done.
wgWaitAny == \E w \in Workers : wpc[w] = "done"

\* wg.Wait()
wgWait == \A w \in Workers : wpc[w] = "done"

\* ------------------------------------------------------------------- Init

EmptyMap == [k \in {} |-> <<0, 0>>]

\* No call of validateParsedBatch on its own is under way.
ValidatorOff ==
    /\ vpc = "off"
    /\ vIdxs = <<>>
    /\ vParsed = <<>>
    /\ vOut = [err |-> FALSE, lines |-> <<>>]

\* No call of buildBatches on its own is under way.
BatcherOff ==
    /\ bpc = "off"
    /\ bSubs = <<>>
    /\ bMax = 0
    /\ bStart = 0
    /\ bI = 0
    /\ bChars = 0
    /\ bIdxs = <<>>
    /\ bTexts = <<>>
    /\ bBatches = <<>>

\* The error values of a TranslateBatch call.
NoTErr == [kind |-> "nil", code |-> 0, attempt |-> 0]

TErr(kind, code, attempt) == [kind |-> kind, code |-> code, attempt |-> attempt]

\* A response without a Retry-After header.
NoHeader == [kind |-> "absent", secs |-> 0]

\* No decision yet.
NoDecision == [err |-> NoTErr, retry |-> FALSE]

\* RetryOptions with nothing set (MaxAttempts is kept apart).
ZeroPolicy == [BaseDelay |-> 0, MaxDelay |-> 0, Jitter |-> 0]

\* No call of TranslateBatch on its own is under way.
TransportOff ==
    /\ tnKeys = 0
    /\ tMaxAttempts = 0
    /\ apiKeyRR = 0
    /\ tCancelled = FALSE
    /\ tpc = "off"
    /\ tattempt = 0
    /\ rotatedOnReject = FALSE
    /\ tkey = -1
    /\ tres = [done |-> FALSE, err |-> NoTErr]
    /\ tcalls = 0
    /\ tfirstKey = -1
    /\ trejKey = -1
    /\ tlast = NoDecision
    /\ tpolicy = ZeroPolicy
    /\ tsleep = -1
    /\ tretryAfter = NoHeader
    /\ tothers = 0

\* No call of computeBackoff on its own is under way.
BackoffOff ==
    /\ kpc = "off"
    /\ kAttempt = 0
    /\ kBaseDelay = 0
    /\ kMaxDelay = 0
    /\ kJitter = 0
    /\ kDraw = 0
    /\ kD = 0

\* No error of the decoder.
NoPErr == [tier |-> "none", what |-> "none", line |-> 0, excerpt |-> <<>>]

\* No result of a tier, or of ParseTranslatedLines, yet.
NoParse ==
    [ok |-> FALSE, tier |-> "none", lines |-> <<>>, salvaged |-> 0,
     err |-> NoPErr]

\* extractIdxAndTextBestEffort found nothing.
NoExtract == [ok |-> FALSE, Idx |-> 0, Text |-> <<>>]

\* No call of ParseTranslatedLines on its own is under way.
ParserOff ==
    /\ ppc = "off"
    /\ pRaw = <<>>
    /\ pOut = <<>>
    /\ pTried = <<>>
    /\ pLast = NoParse
    /\ pRes = NoParse

\* No round trip on its own is under way.
RoundTripOff ==
    /\ rtpc = "off"
    /\ rtIdxs = <<>>
    /\ rtTexts = <<>>
    /\ rtWire = <<>>
    /\ rtRes = NoParse

\* No call of extractIdxAndTextBestEffort on its own is under way.
ExtractOff ==
    /\ xpc = "off"
    /\ xIdx = 0
    /\ xText = <<>>
    /\ xObj = <<>>
    /\ xRes = NoExtract

FormatOff == ParserOff /\ RoundTripOff /\ ExtractOff

\* No call of Run on its own is under way.
RunOff ==
    /\ runpc = "off"
    /\ runOpts = <<>>
    /\ runSubs = <<>>
    /\ runTexts = <<>>
    /\ runOut = <<>>
    /\ runErr = "nil"
    /\ runDone = {}

\* No call of the segment scanner on its own is under way.
SegmentsOff ==
    /\ gpc = "off"
    /\ gText = <<>>
    /\ gRes = <<>>

RestOff == RunOff /\ SegmentsOff

UnitsOff ==
    ValidatorOff /\ BatcherOff /\ TransportOff /\ BackoffOff /\ FormatOff
        /\ RestOff

\* The handlers of the mock servers of the tests: one that always answers
\* with valid NDJSON, one whose first answer is unparsable text, and one whose
\* first answer is a 429.
MockHandlers == {"valid", "unparsableFirst", "tooManyFirst"}

\* translateBatches is called: the configuration, and every process at its
\* start.
JobStart ==
    /\ nb \in 0..NumBatches
    /\ nWorkers \in 1..MaxWorkers
    /\ rpsOn \in BOOLEAN
    /\ retryMax \in 1..MaxTransportAttempts
    /\ parentErr = "nil"
    /\ ctxErr = "nil"
    /\ fpc = "run"
    /\ fnext = 1
    /\ remaining = nb
    /\ wpc = [w \in 1..nWorkers |-> "loop"]
    /\ wbatch = [w \in 1..nWorkers |-> 0]
    /\ wattempt = [w \in 1..nWorkers |-> 0]
    /\ wtry = [w \in 1..nWorkers |-> 0]
    /\ wungated = [w \in 1..nWorkers |-> FALSE]
    /\ wparsed = [w \in 1..nWorkers |-> <<>>]
    /\ wmi = [w \in 1..nWorkers |-> 0]
    /\ werr = [w \in 1..nWorkers |-> NoErr]
    /\ translatedMu = 0
    /\ translatedTexts = EmptyMap
    /\ errCh = <<>>
    /\ mpc = "wait"
    /\ retMap = EmptyMap
    /\ retErr = NoErr
    /\ accepted = {}
    /\ firstReported = NoErr
    /\ ownCancel = FALSE
    /\ outOfOrder = FALSE
    /\ lateDequeued = {}
    /\ calls = [b \in BatchIds |-> 0]
    /\ UnitsOff

Init == JobStart /\ mock = "none"

\* The job of a test: the service is a mock server with one of the handlers.
JobInit == JobStart /\ mock \in MockHandlers

\* ---------------------------------------------------------------- helpers

cfgVars == <<nb, nWorkers, rpsOn, retryMax, mock>>

ctxVars == <<parentErr, ctxErr>>

feederVars == <<fpc, fnext, remaining, lateDequeued>>

batchVars == <<wbatch, wattempt, wtry, wungated>>

mergeVars == <<wparsed, wmi, translatedMu, translatedTexts, outOfOrder>>

errVars == <<errCh, firstReported, ownCancel>>

mainVars == <<mpc, retMap, retErr>>

ctxDone == ctxErr # "nil"

\* A worker's runOneBatch returns err: the worker goes on to report it.
Fail(w, err) ==
    /\ wpc' = [wpc EXCEPT ![w] = "report"]
    /\ werr' = [werr EXCEPT ![w] = err]
    /\ wbatch' = [wbatch EXCEPT ![w] = 0]
    /\ wattempt' = [wattempt EXCEPT ![w] = 0]
    /\ wtry' = [wtry EXCEPT ![w] = 0]
    /\ wungated' = [wungated EXCEPT ![w] = FALSE]

\* The mock's count after one more call for batch b has reached it.
Called(b) == IF mock = "none" THEN calls ELSE [calls EXCEPT ![b] = @ + 1]

\* do(attempt): doJSONPost starts one HTTP request for the worker's batch;
\* waited tells whether limiter.Wait returned nil since the previous request.
StartRequest(w, attempt, try, waited) ==
    /\ wpc' = [wpc EXCEPT ![w] = "http"]
    /\ wattempt' = [wattempt EXCEPT ![w] = attempt]
    /\ wtry' = [wtry EXCEPT ![w] = try]
    /\ wungated' = [wungated EXCEPT ![w] = @ \/ (rpsOn /\ ~waited)]
    /\ calls' = Called(wbatch[w])
    /\ UNCHANGED <<werr, wbatch>>

\* A hand-over after which the feeder sends the same batch again, unless it
\* was the last.
DequeueSameAgain(w) ==
    /\ wpc' = [wpc EXCEPT ![w] = "start"]
    /\ wbatch' = [wbatch EXCEPT ![w] = fnext]
    /\ fnext' = IF fnext < nb THEN fnext ELSE fnext + 1
    /\ remaining' = remaining - 1
    /\ lateDequeued' = IF ctxDone THEN lateDequeued \cup {fnext} ELSE lateDequeued
    /\ fpc' = IF fnext < nb THEN "run" ELSE "closed"

\* The send jobs <- b meets a receive b := <-jobs; the worker does
\* n := remaining.Add(-1) and enters runOneBatch. After its last send
\* enqueueBatches leaves the loop and the deferred close(jobs) runs.
Dequeue(w) ==
    /\ wpc' = [wpc EXCEPT ![w] = "start"]
    /\ wbatch' = [wbatch EXCEPT ![w] = fnext]
    /\ fnext' = fnext + 1
    /\ remaining' = remaining - 1
    /\ lateDequeued' = IF ctxDone THEN lateDequeued \cup {fnext} ELSE lateDequeued
    /\ fpc' = IF fnext < nb THEN "run" ELSE "closed"

\* ---------------------------------------------------------------- workers

\* for b := range jobs: the channel is closed, a sender is waiting, or the
\* worker blocks on the receive. A sender already woken by ctx.Done() gives
\* its value to nobody.
WorkerRecv(w) ==
    /\ wpc[w] = "loop"
    /\ IF fpc = "closed"
       THEN /\ wpc' = [wpc EXCEPT ![w] = "done"]
            /\ UNCHANGED <<wbatch, feederVars>>
       ELSE IF fpc = "parked" /\ ~ctxDone
       THEN Dequeue(w)
       ELSE /\ wpc' = [wpc EXCEPT ![w] = "recv"]
            /\ UNCHANGED <<wbatch, feederVars>>
    /\ UNCHANGED <<unitVars, cfgVars, ctxVars, wattempt, wtry, wungated,
                   werr, mergeVars, errVars, mainVars, accepted, calls>>

\* The blocked receive returns because the channel was closed.
WorkerClosed(w) ==
    /\ wpc[w] = "recv"
    /\ fpc = "closed"
    /\ wpc' = [wpc EXCEPT ![w] = "done"]
    /\ UNCHANGED <<unitVars, cfgVars, ctxVars, feederVars, batchVars, werr,
                   mergeVars, errVars, mainVars, accepted, calls>>

\* A runOneBatch that starts without looking at ctx.Err().
RunStartNoCtxCheck(w) ==
    /\ wpc[w] = "start"
    /\ IF rpsOn
       THEN /\ wpc' = [wpc EXCEPT ![w] = "limit"]
            /\ UNCHANGED <<werr, batchVars, calls>>
       ELSE StartRequest(w, 1, 1, FALSE)
    /\ UNCHANGED <<unitVars, cfgVars, ctxVars, feederVars, mergeVars, errVars,
                   mainVars, accepted>>

\* runOneBatch up to its first blocking call: the ctx.Err() checks, then either
\* limiter.Wait or, without a limiter, attempt 1 and its first request.
RunStart(w) ==
    /\ wpc[w] = "start"
    /\ IF ctxDone
       THEN Fail(w, CtxError(ctxErr)) /\ UNCHANGED calls
       ELSE IF rpsOn
       THEN /\ wpc' = [wpc EXCEPT ![w] = "limit"]
            /\ UNCHANGED <<werr, batchVars, calls>>
       ELSE StartRequest(w, 1, 1, FALSE)
    /\ UNCHANGED <<unitVars, cfgVars, ctxVars, feederVars, mergeVars, errVars,
                   mainVars, accepted>>

\* limiter.Wait(ctx) returns: with ctx.Err(), or, its reservation of the next
\* token having come due, with nil; attempt 1 then starts its first request.
LimiterWait(w) ==
    /\ wpc[w] = "limit"
    /\ IF ctxDone
       THEN Fail(w, CtxError(ctxErr)) /\ UNCHANGED calls
       ELSE StartRequest(w, 1, 1, TRUE)
    /\ UNCHANGED <<unitVars, cfgVars, ctxVars, feederVars, mergeVars, errVars, mainVars,
                   accepted>>

\* What a response to a request for batch b is: a failure, unparsable text,
\* parsable text that is not valid for the batch, or valid NDJSON for exactly
\* the ids of the batch.
ResponseClass(b, o) ==
    IF o.kind # "ok" THEN o.kind
    ELSE IF ParseTranslatedLines(o.body).err THEN "unparsable"
    ELSE IF validateParsedBatch(expectedOf(b), batchIdxs(b),
                                ParseTranslatedLines(o.body).lines).err
    THEN "invalid"
    ELSE "valid"

\* The responses to a request for batch b of the given class.
OutcomesOf(b, class) == {o \in Outcomes(b) : ResponseClass(b, o) = class}

\* What the handler answers the n-th call for batch b with.
MockAnswers(b, n) ==
    CASE mock = "unparsableFirst" /\ n = 1 -> OutcomesOf(b, "unparsable")
      [] mock = "tooManyFirst" /\ n = 1 -> OutcomesOf(b, "retryable")
      [] OTHER -> OutcomesOf(b, "valid")

\* What the request under way for batch b can come back with.
ServiceOutcomes(b) ==
    IF mock \in {"none", "counting"} THEN Outcomes(b)
    ELSE MockAnswers(b, calls[b])

\* A runOneBatch that takes no output for good.
batchRejectedAlways(p, v) == TRUE

\* The output of an attempt is not usable: ParseTranslatedLines or
\* validateParsedBatch returned an error.
batchRejected(p, v) == p.err \/ v.err

\* What runOneBatch does with the content of a 2xx response: decode, validate,
\* and then retry the batch, fail, or go on to merge.
HandleContent(w, body) ==
    LET b == wbatch[w]
        p == ParseTranslatedLines(body)
        v == validateParsedBatch(expectedOf(b), batchIdxs(b), p.lines)
        bad == batchRejected(p, v)
        err == IF p.err THEN DecodeError(b, wattempt[w])
               ELSE ValidationError(b, wattempt[w])
    IN IF bad /\ canRetryParse(wattempt[w])
       THEN /\ wpc' = [wpc EXCEPT ![w] = "psleep"]
            /\ UNCHANGED <<werr, batchVars, wparsed, accepted>>
       ELSE IF bad
       THEN /\ Fail(w, err)
            /\ UNCHANGED <<wparsed, accepted>>
       ELSE /\ wpc' = [wpc EXCEPT ![w] = "lock"]
            /\ wparsed' = [wparsed EXCEPT ![w] = v.lines]
            /\ accepted' = accepted \cup {b}
            /\ UNCHANGED <<werr, batchVars>>

\* The request of do(attempt) comes back and requestWithRetry decides.
HttpResponse(w) ==
    /\ wpc[w] = "http"
    /\ \E o \in ServiceOutcomes(wbatch[w]) :
        IF o.kind = "ok" THEN HandleContent(w, o.body)
        ELSE IF o.kind = "retryable" /\ canRetryRequest(wtry[w])
        THEN /\ wpc' = [wpc EXCEPT ![w] = "tsleep"]
             /\ UNCHANGED <<werr, batchVars, wparsed, accepted>>
        ELSE /\ Fail(w, TransportError(wbatch[w]))
             /\ UNCHANGED <<wparsed, accepted>>
    /\ UNCHANGED calls
    /\ UNCHANGED <<unitVars, cfgVars, ctxVars, feederVars, wmi, translatedMu,
                   translatedTexts, outOfOrder, errVars, mainVars>>

\* The request in flight is aborted because its context was cancelled: the
\* error is no timeout, so isRetryableNetErr is false and requestWithRetry returns it.
HttpAbort(w) ==
    /\ wpc[w] = "http"
    /\ ctxDone
    /\ Fail(w, AbortedError(ctxErr))
    /\ UNCHANGED calls
    /\ UNCHANGED <<unitVars, cfgVars, ctxVars, feederVars, mergeVars, errVars,
                   mainVars, accepted>>

\* sleepWithContext inside requestWithRetry ends: by ctx.Done(), or by the
\* timer, and then the next attempt of the request starts.
TransportSleep(w) ==
    /\ wpc[w] = "tsleep"
    /\ IF ctxDone
       THEN Fail(w, CtxError(ctxErr)) /\ UNCHANGED calls
       ELSE StartRequest(w, wattempt[w], wtry[w] + 1, FALSE)
    /\ UNCHANGED <<unitVars, cfgVars, ctxVars, feederVars, mergeVars, errVars,
                   mainVars, accepted>>

\* sleepWithContext inside runOneBatch ends: by ctx.Done(), or by the timer,
\* and then the next attempt calls TranslateBatch, which starts its first request.
ParseSleep(w) ==
    /\ wpc[w] = "psleep"
    /\ IF ctxDone
       THEN Fail(w, CtxError(ctxErr)) /\ UNCHANGED calls
       ELSE StartRequest(w, wattempt[w] + 1, 1, FALSE)
    /\ UNCHANGED <<unitVars, cfgVars, ctxVars, feederVars, mergeVars, errVars,
                   mainVars, accepted>>

\* A Lock that does not wait for the mutex to be free.
LockNoWait(w) ==
    /\ wpc[w] = "lock"
    /\ translatedMu' = w
    /\ wpc' = [wpc EXCEPT ![w] = "merge"]
    /\ wmi' = [wmi EXCEPT ![w] = 1]
    /\ UNCHANGED <<unitVars, cfgVars, ctxVars, feederVars, batchVars, wparsed,
                   werr, translatedTexts, outOfOrder, errVars, mainVars, accepted,
                   calls>>

\* translatedMu.Lock()
Lock(w) ==
    /\ wpc[w] = "lock"
    /\ translatedMu = 0
    /\ translatedMu' = w
    /\ wpc' = [wpc EXCEPT ![w] = "merge"]
    /\ wmi' = [wmi EXCEPT ![w] = 1]
    /\ UNCHANGED <<unitVars, cfgVars, ctxVars, feederVars, batchVars, wparsed,
                   werr, translatedTexts, outOfOrder, errVars, mainVars, accepted,
                   calls>>

\* One iteration of the merge loop; after the last, translatedMu.Unlock() and
\* runOneBatch returns nil.
MergeWrite(w) ==
    /\ wpc[w] = "merge"
    /\ translatedTexts' = mergeLine(translatedTexts, wparsed[w][wmi[w]])
    /\ IF wmi[w] < Len(wparsed[w])
       THEN /\ wmi' = [wmi EXCEPT ![w] = @ + 1]
            /\ UNCHANGED <<wpc, batchVars, wparsed, translatedMu, outOfOrder>>
       ELSE /\ translatedMu' = 0
            /\ outOfOrder' = (outOfOrder \/ \E b \in 1..(wbatch[w] - 1) :
                                  ~(expectedOf(b) \subseteq DOMAIN translatedTexts'))
            /\ wpc' = [wpc EXCEPT ![w] = "loop"]
            /\ wmi' = [wmi EXCEPT ![w] = 0]
            /\ wparsed' = [wparsed EXCEPT ![w] = <<>>]
            /\ wbatch' = [wbatch EXCEPT ![w] = 0]
            /\ wattempt' = [wattempt EXCEPT ![w] = 0]
            /\ wtry' = [wtry EXCEPT ![w] = 0]
            /\ wungated' = [wungated EXCEPT ![w] = FALSE]
    /\ UNCHANGED <<unitVars, cfgVars, ctxVars, feederVars, werr, errVars,
                   mainVars, accepted, calls>>

\* reportWorkerErrorAndCancel: the non-blocking send on errCh.
Report(w) ==
    /\ wpc[w] = "report"
    /\ errCh' = sendErr(errCh, werr[w])
    /\ firstReported' = IF firstReported = NoErr THEN werr[w] ELSE firstReported
    /\ werr' = [werr EXCEPT ![w] = NoErr]
    /\ wpc' = [wpc EXCEPT ![w] = "cancel"]
    /\ UNCHANGED <<unitVars, cfgVars, ctxVars, feederVars, batchVars, mergeVars,
                   mainVars, accepted, calls, ownCancel>>

\* reportWorkerErrorAndCancel: cancel(); the worker returns and wg.Done() runs.
Cancel(w) ==
    /\ wpc[w] = "cancel"
    /\ ctxErr' = cancelled(ctxErr)
    /\ ownCancel' = TRUE
    /\ wpc' = [wpc EXCEPT ![w] = "done"]
    /\ UNCHANGED <<unitVars, cfgVars, parentErr, feederVars, batchVars, werr,
                   mergeVars, errCh, firstReported, mainVars, accepted, calls>>

WorkerStep(w) ==
    \/ WorkerRecv(w)
    \/ WorkerClosed(w)
    \/ RunStart(w)
    \/ LimiterWait(w)
    \/ HttpResponse(w)
    \/ HttpAbort(w)
    \/ TransportSleep(w)
    \/ ParseSleep(w)
    \/ Lock(w)
    \/ MergeWrite(w)
    \/ Report(w)
    \/ Cancel(w)

\* ----------------------------------------------------------------- feeder

FeederFrame ==
    UNCHANGED <<unitVars, cfgVars, ctxVars, wattempt, wtry, wungated, werr,
                mergeVars, errVars, mainVars, accepted, calls>>

\* enqueueBatches with no batch at all: the deferred close(jobs) runs.
FeederClose ==
    /\ fpc = "run"
    /\ fnext > nb
    /\ fpc' = "closed"
    /\ UNCHANGED <<fnext, remaining, wpc, wbatch, lateDequeued>>
    /\ FeederFrame

\* enqueueBatches enters its select with ctx.Done() ready and takes that case.
FeederDone ==
    /\ fpc = "run"
    /\ fnext <= nb
    /\ ctxDone
    /\ fpc' = "closed"
    /\ UNCHANGED <<fnext, remaining, wpc, wbatch, lateDequeued>>
    /\ FeederFrame

\* enqueueBatches enters its select with a receiver waiting and takes the send
\* (when ctx.Done() is ready too, select picks either case).
FeederSend(w) ==
    /\ fpc = "run"
    /\ fnext <= nb
    /\ wpc[w] = "recv"
    /\ Dequeue(w)
    /\ FeederFrame

\* enqueueBatches enters its select with no case ready and blocks.
FeederPark ==
    /\ fpc = "run"
    /\ fnext <= nb
    /\ ~ctxDone
    /\ \A w \in Workers : wpc[w] # "recv"
    /\ fpc' = "parked"
    /\ UNCHANGED <<fnext, remaining, wpc, wbatch, lateDequeued>>
    /\ FeederFrame

\* A feeder whose blocked send "jobs <- b" has no ctx.Done() case.
FeederNeverWakes ==
    /\ FALSE
    /\ UNCHANGED vars

\* The blocked select is woken by ctx.Done(); the deferred close(jobs) runs.
FeederWake ==
    /\ fpc = "parked"
    /\ ctxDone
    /\ fpc' = "closed"
    /\ UNCHANGED <<fnext, remaining, wpc, wbatch, lateDequeued>>
    /\ FeederFrame

FeederStep ==
    \/ FeederClose
    \/ FeederDone
    \/ \E w \in Workers : FeederSend(w)
    \/ FeederPark
    \/ FeederWake

\* ------------------------------------------------------------ environment

\* The caller cancels the context it passed, while the job runs.
CallerCancel ==
    /\ mpc = "wait"
    /\ parentErr = "nil"
    /\ parentErr' = "canceled"
    /\ ctxErr' = cancelled(ctxErr)
    /\ UNCHANGED <<unitVars, cfgVars, feederVars, wpc, batchVars, werr, mergeVars,
                   errVars, mainVars, accepted, calls>>

\* ------------------------------------------------------- translateBatches

NilMap == EmptyMap

\* Return values of translateBatches that keep the merged texts with the
\* error.
translateBatchesKeepMap(e1, e2, texts) ==
    IF e1 # NoErr THEN [texts |-> texts, err |-> e1]
    ELSE IF e2 # NoErr THEN [texts |-> texts, err |-> e2]
    ELSE [texts |-> texts, err |-> NoErr]

\* The return values of translateBatches: e1 is firstErr(errCh), e2 is
\* nonCanceledContextErr(ctx), texts is translatedTexts.
translateBatchesReturn(e1, e2, texts) ==
    IF e1 # NoErr THEN [texts |-> NilMap, err |-> e1]
    ELSE IF e2 # NoErr THEN [texts |-> NilMap, err |-> e2]
    ELSE [texts |-> texts, err |-> NoErr]

\* wg.Wait() returns; firstErr, nonCanceledContextErr, and the deferred cancel().
Return ==
    /\ mpc = "wait"
    /\ wgWait
    /\ retErr' = translateBatchesReturn(firstErr(errCh),
                                        nonCanceledContextErr(ctxErr),
                                        translatedTexts).err
    /\ retMap' = translateBatchesReturn(firstErr(errCh),
                                        nonCanceledContextErr(ctxErr),
                                        translatedTexts).texts
    /\ errCh' = IF Len(errCh) > 0 THEN Tail(errCh) ELSE errCh
    /\ ctxErr' = cancelled(ctxErr)
    /\ mpc' = "returned"
    /\ UNCHANGED <<unitVars, cfgVars, parentErr, feederVars, wpc, batchVars, werr,
                   mergeVars, firstReported, ownCancel, accepted, calls>>

\* ------------------------------------------------------- specifications

Next ==
    \/ \E w \in Workers : WorkerRecv(w)
    \/ \E w \in Workers : WorkerClosed(w)
    \/ \E w \in Workers : RunStart(w)
    \/ \E w \in Workers : LimiterWait(w)
    \/ \E w \in Workers : HttpResponse(w)
    \/ \E w \in Workers : HttpAbort(w)
    \/ \E w \in Workers : TransportSleep(w)
    \/ \E w \in Workers : ParseSleep(w)
    \/ \E w \in Workers : Lock(w)
    \/ \E w \in Workers : MergeWrite(w)
    \/ \E w \in Workers : Report(w)
    \/ \E w \in Workers : Cancel(w)
    \/ FeederClose
    \/ FeederDone
    \/ \E w \in Workers : FeederSend(w)
    \/ FeederPark
    \/ FeederWake
    \/ CallerCancel
    \/ Return

Spec == Init /\ [][Next]_vars

\* The job against the mock server of the tests.
JobSpec == JobInit /\ [][Next]_vars

\* The job of one worker against a service that is free to answer anything
\* and counts the requests it gets for each batch.
CountInit == JobStart /\ mock = "counting" /\ nWorkers = 1

CountSpec == CountInit /\ [][Next]_vars

\* Every goroutine that can run does run, timers fire and requests come back;
\* the caller is free never to cancel.
FairSpec ==
    /\ Spec
    /\ \A w \in 1..MaxWorkers : WF_vars(w \in Workers /\ WorkerStep(w))
    /\ WF_vars(FeederStep)
    /\ WF_vars(Return)

\* ------------------------------------------------- functions on their own

\* No job is under way: translateBatches with no batch, before it starts.
DispatcherOff ==
    /\ nb = 0
    /\ nWorkers = 1
    /\ rpsOn = FALSE
    /\ retryMax = 1
    /\ parentErr = "nil"
    /\ ctxErr = "nil"
    /\ fpc = "run"
    /\ fnext = 1
    /\ remaining = 0
    /\ wpc = [w \in 1..1 |-> "loop"]
    /\ wbatch = [w \in 1..1 |-> 0]
    /\ wattempt = [w \in 1..1 |-> 0]
    /\ wtry = [w \in 1..1 |-> 0]
    /\ wungated = [w \in 1..1 |-> FALSE]
    /\ wparsed = [w \in 1..1 |-> <<>>]
    /\ wmi = [w \in 1..1 |-> 0]
    /\ werr = [w \in 1..1 |-> NoErr]
    /\ translatedMu = 0
    /\ translatedTexts = EmptyMap
    /\ errCh = <<>>
    /\ mpc = "wait"
    /\ retMap = EmptyMap
    /\ retErr = NoErr
    /\ accepted = {}
    /\ firstReported = NoErr
    /\ ownCancel = FALSE
    /\ outOfOrder = FALSE
    /\ lateDequeued = {}
    /\ mock = "none"
    /\ calls = [b \in BatchIds |-> 0]

\* ---------------------------------------------------- validateParsedBatch

\* The sequences over S of length 0..n.
SeqsUpTo(S, n) == UNION {[1..k -> S] : k \in 0..n}

\* b.idxs of a batch: buildBatch gives a contiguous run of the records' idxs.
ContiguousIdxs == {[i \in 1..k |-> s + i - 1] : s \in 1..2, k \in 1..MaxValLen}

\* What ParseTranslatedLines can return without error: lines with idx > 0.
ParsedLines == [Idx : 1..MaxValId, Text : {"a", "b"}]

ValidateInit ==
    /\ vpc = "call"
    /\ vIdxs \in ContiguousIdxs
    /\ vParsed \in SeqsUpTo(ParsedLines, MaxParsedLen)
    /\ vOut = [err |-> FALSE, lines |-> <<>>]
    /\ DispatcherOff
    /\ BatcherOff
    /\ TransportOff
    /\ BackoffOff
    /\ FormatOff
    /\ RestOff

\* runOneBatch builds expected from b.idxs and calls validateParsedBatch.
ValidateCall ==
    /\ vpc = "call"
    /\ vOut' = validateParsedBatch(SeqToSet(vIdxs), vIdxs, vParsed)
    /\ vpc' = "done"
    /\ UNCHANGED <<vIdxs, vParsed, dispatchVars, batcherVars, transportVars,
                   backoffVars, formatVars, restVars>>

ValidateNext == ValidateCall

ValidateSpec == ValidateInit /\ [][ValidateNext]_vars

\* ------------------------------------------------ the wire encoding (json)

\* The decimal digits of n >= 0, as json.Marshal writes an int.
RECURSIVE DigitsOf(_)
DigitsOf(n) ==
    LET d == <<"0", "1", "2", "3", "4", "5", "6", "7", "8", "9">>[(n % 10) + 1]
    IN IF n < 10 THEN <<d>> ELSE Append(DigitsOf(n \div 10), d)

\* strings.ReplaceAll(text, CR LF, LF) on a text given as its characters.
RECURSIVE ReplaceCRLF(_)
ReplaceCRLF(text) ==
    IF Len(text) = 0 THEN <<>>
    ELSE IF Len(text) >= 2 /\ text[1] = "CR" /\ text[2] = "LF"
    THEN <<"LF">> \o ReplaceCRLF(SubSeq(text, 3, Len(text)))
    ELSE <<text[1]>> \o ReplaceCRLF(Tail(text))

\* What json.Marshal writes for one character of a string: a plain character
\* as itself, line feed, carriage return, tab, the quote and the backslash as
\* a backslash and a character, and "<" (HTML-escaped by default) as the six
\* bytes of its \u escape.
EscapeChar(ch) ==
    IF ch = "LF" THEN <<"BACKSLASH", "n">>
    ELSE IF ch = "CR" THEN <<"BACKSLASH", "r">>
    ELSE IF ch = "TAB" THEN <<"BACKSLASH", "t">>
    ELSE IF ch = "QUOTE" THEN <<"BACKSLASH", "QUOTE">>
    ELSE IF ch = "BACKSLASH" THEN <<"BACKSLASH", "BACKSLASH">>
    ELSE IF ch = "<" THEN <<"BACKSLASH", "u", "0", "0", "3", "c">>
    ELSE <<ch>>

\* A string written without its escapes.
WriteUnescaped(text) == text

RECURSIVE EscapeString(_)
EscapeString(text) ==
    IF Len(text) = 0 THEN <<>>
    ELSE EscapeChar(text[1]) \o EscapeString(Tail(text))

\* FormatOneForTranslation: the bytes of {"idx":N,"text":"..."}.
FormatOneForTranslation(idx, text) ==
    <<"{", "QUOTE", "i", "d", "x", "QUOTE", ":">>
        \o DigitsOf(idx)
        \o <<",", "QUOTE", "t", "e", "x", "t", "QUOTE", ":", "QUOTE">>
        \o EscapeString(ReplaceCRLF(text))
        \o <<"QUOTE", "}">>

\* FormatForTranslation: the encoded items joined by line feeds (the idxs of
\* a batch are positive, so its error cases do not arise).
RECURSIVE FormatForTranslation(_, _)
FormatForTranslation(idxs, texts) ==
    IF Len(idxs) = 0 THEN <<>>
    ELSE IF Len(idxs) = 1 THEN FormatOneForTranslation(idxs[1], texts[1])
    ELSE FormatForTranslation(SubSeq(idxs, 1, Len(idxs) - 1),
                              SubSeq(texts, 1, Len(texts) - 1))
             \o <<"LF">>
             \o FormatOneForTranslation(idxs[Len(idxs)], texts[Len(texts)])

\* ------------------------------------------------ buildBatches, buildBatch

\* Texts of records: plain, CR LF, "<", and a quote between letters.
SampleTexts == {<<"a">>, <<"CR", "LF">>, <<"<">>, <<"a", "QUOTE", "a">>}

\* subs as readSubtitles returns it: idx i at position i (Reindex otherwise).
RecordSeqs ==
    UNION {{[i \in 1..n |-> [Idx |-> i, Text |-> t[i]]] :
               t \in [1..n -> SampleTexts]} : n \in 0..MaxRecords}

BatchInit ==
    /\ bpc = "loop"
    /\ bSubs \in RecordSeqs
    /\ bMax \in 1..MaxBudget
    /\ bStart = 0
    /\ bI = 0
    /\ bChars = 0
    /\ bIdxs = <<>>
    /\ bTexts = <<>>
    /\ bBatches = <<>>
    /\ DispatcherOff
    /\ ValidatorOff
    /\ TransportOff
    /\ BackoffOff
    /\ FormatOff
    /\ RestOff

\* A line length that counts the characters of the text, not its encoding.
lineLenRaw(rec) == Len(rec.Text) + 1

\* lineLen := len(enc) + 1
lineLen(rec) == Len(FormatOneForTranslation(rec.Idx, rec.Text)) + 1

\* i > start && chars+lineLen > maxChars
mustClose(i, start, chars, ll, maxChars) == i > start /\ chars + ll > maxChars

BatchFrame == UNCHANGED <<bSubs, bMax, dispatchVars, validatorVars,
                          transportVars, backoffVars, formatVars, restVars>>

\* buildBatches: the loop test, and the call of buildBatch(subs, start, ...).
BuildBatchesLoop ==
    /\ bpc = "loop"
    /\ IF bStart < Len(bSubs)
       THEN /\ bpc' = "batch"
            /\ bI' = bStart
       ELSE /\ bpc' = "done"
            /\ UNCHANGED bI
    /\ bChars' = 0
    /\ bIdxs' = <<>>
    /\ bTexts' = <<>>
    /\ UNCHANGED <<bStart, bBatches>>
    /\ BatchFrame

\* A buildBatch that leaves out a first record larger than the budget.
BuildBatchAddDropOversized ==
    /\ bpc = "batch"
    /\ bI < Len(bSubs)
    /\ LET rec == bSubs[bI + 1]
       IN /\ ~mustClose(bI, bStart, bChars, lineLen(rec), bMax)
          /\ IF lineLen(rec) > bMax
             THEN UNCHANGED <<bIdxs, bTexts, bChars>>
             ELSE /\ bIdxs' = Append(bIdxs, rec.Idx)
                  /\ bTexts' = Append(bTexts, rec.Text)
                  /\ bChars' = bChars + lineLen(rec)
    /\ bI' = bI + 1
    /\ UNCHANGED <<bpc, bStart, bBatches>>
    /\ BatchFrame

\* buildBatch: an iteration that appends subs[i] to the batch.
BuildBatchAdd ==
    /\ bpc = "batch"
    /\ bI < Len(bSubs)
    /\ LET rec == bSubs[bI + 1]
       IN /\ ~mustClose(bI, bStart, bChars, lineLen(rec), bMax)
          /\ bIdxs' = Append(bIdxs, rec.Idx)
          /\ bTexts' = Append(bTexts, rec.Text)
          /\ bChars' = bChars + lineLen(rec)
    /\ bI' = bI + 1
    /\ UNCHANGED <<bpc, bStart, bBatches>>
    /\ BatchFrame

\* A buildBatch that returns i + 1 as next when it closes the batch.
BuildBatchCloseSkip ==
    /\ bpc = "batch"
    /\ bI < Len(bSubs)
    /\ mustClose(bI, bStart, bChars, lineLen(bSubs[bI + 1]), bMax)
    /\ bBatches' = Append(bBatches, [idxs |-> bIdxs, texts |-> bTexts])
    /\ bStart' = bI + 1
    /\ bpc' = "loop"
    /\ UNCHANGED <<bI, bChars, bIdxs, bTexts>>
    /\ BatchFrame

\* buildBatch: the iteration that closes the batch, return idxs, texts, i;
\* buildBatches appends the batch and sets start = next.
BuildBatchClose ==
    /\ bpc = "batch"
    /\ bI < Len(bSubs)
    /\ mustClose(bI, bStart, bChars, lineLen(bSubs[bI + 1]), bMax)
    /\ bBatches' = Append(bBatches, [idxs |-> bIdxs, texts |-> bTexts])
    /\ bStart' = bI
    /\ bpc' = "loop"
    /\ UNCHANGED <<bI, bChars, bIdxs, bTexts>>
    /\ BatchFrame

\* buildBatch: the loop ran off the records, return idxs, texts, len(subs).
BuildBatchEnd ==
    /\ bpc = "batch"
    /\ bI >= Len(bSubs)
    /\ bBatches' = Append(bBatches, [idxs |-> bIdxs, texts |-> bTexts])
    /\ bStart' = Len(bSubs)
    /\ bpc' = "loop"
    /\ UNCHANGED <<bI, bChars, bIdxs, bTexts>>
    /\ BatchFrame

BatchNext ==
    \/ BuildBatchesLoop
    \/ BuildBatchAdd
    \/ BuildBatchClose
    \/ BuildBatchEnd

BatchSpec == BatchInit /\ [][BatchNext]_vars

\* buildBatches runs to its end when it is not stopped from outside.
BatchFairSpec == BatchSpec /\ WF_vars(BatchNext)

\* ------------------------------------------------- durations and backoff

\* The range of a duration: durations are counted in units of 500 ms and kept
\* in a signed word of DurBits bits.
DurMax == 2 ^ (DurBits - 1) - 1

DurMin == -(2 ^ (DurBits - 1))

\* time.Duration(x) for a float x that holds a whole number: x itself when the
\* word can hold it; otherwise the language leaves the value to the
\* implementation, and it is any value of the word.
DurationOf(x) == IF x >= DurMin /\ x <= DurMax THEN {x} ELSE DurMin..DurMax

\* if d > o.MaxDelay { d = o.MaxDelay }; if d < 0 { d = 0 }
clampExponential(d, maxDelay) ==
    LET d1 == IF d > maxDelay THEN maxDelay ELSE d
    IN IF d1 < 0 THEN 0 ELSE d1

\* A clamp after the jitter that looks at the lower end only.
clampJitterLowOnly(d, maxDelay) == IF d < 0 THEN 0 ELSE d

\* if d < 0 { d = 0 }; if d > o.MaxDelay { d = o.MaxDelay }
clampJitter(d, maxDelay) ==
    LET d1 == IF d < 0 THEN 0 ELSE d
    IN IF d1 > maxDelay THEN maxDelay ELSE d1

\* float64(d) * (1 + j) for j = (draw*2 - 1) * jitter, cut to a whole number:
\* 1 + j = (DrawDen*JitterDen + (2*draw - DrawDen)*jitter) / (DrawDen*JitterDen)
\* is never negative for jitter within 0..JitterDen.
jittered(d, jitter, draw) ==
    (d * (DrawDen * JitterDen + (2 * draw - DrawDen) * jitter))
        \div (DrawDen * JitterDen)

\* time.Duration(secs) * time.Second: a product of the word, which wraps.
WrapDur(x) == ((x - DurMin) % (2 ^ DurBits)) + DurMin

\* time.Second, in units of 500 ms.
Second == 2

\* What computeBackoff(attempt, o) can return, over the draws of the jitter
\* and over what an out-of-range conversion can give; o is a record with
\* BaseDelay, MaxDelay and Jitter.
computeBackoff(attempt, o) ==
    LET a == IF attempt < 1 THEN 1 ELSE attempt
        base == IF o.BaseDelay <= 0 THEN FallbackBaseDelay ELSE o.BaseDelay
        maxd == IF o.MaxDelay <= 0 THEN FallbackMaxDelay ELSE o.MaxDelay
        jit == IF o.Jitter < 0 THEN 0
               ELSE IF o.Jitter > JitterDen THEN JitterDen ELSE o.Jitter
        exps == {clampExponential(v, maxd) : v \in DurationOf(base * 2 ^ (a - 1))}
    IN IF jit > 0
       THEN UNION {UNION {{clampJitter(w, maxd) :
                              w \in DurationOf(jittered(d, jit, draw))} :
                          draw \in 0..(DrawDen - 1)} : d \in exps}
       ELSE exps

\* ------------------------------------- TranslateBatch and requestWithRetry

\* The Retry-After header of a response: absent, a text strconv.Atoi refuses,
\* or a whole number of seconds: negative, 0, small, or so large that its
\* duration leaves the word.
RetryAfterHeaders ==
    {NoHeader, [kind |-> "text", secs |-> 0]}
    \cup {[kind |-> "int", secs |-> n] : n \in (-1..MaxRetryAfter) \cup {DurMax}}

\* Status codes a response can carry: success, a client error, the three
\* rejections, and a server error.
StatusCodes == {200, 400, 401, 403, 429, 503}

\* What doJSONPost can come back with: a response with a status and, for the
\* body, whether parseChatCompletionContent can read it; or an error of the
\* network, temporary (a timeout) or not.
Responses ==
    {[kind |-> "http", code |-> c, envelope |-> e, temporary |-> FALSE,
      header |-> NoHeader] : c \in {x \in StatusCodes : x < 300}, e \in BOOLEAN}
    \cup {[kind |-> "http", code |-> c, envelope |-> FALSE, temporary |-> FALSE,
           header |-> h] :
              c \in {x \in StatusCodes : x >= 300}, h \in RetryAfterHeaders}
    \cup {[kind |-> "net", code |-> 0, envelope |-> FALSE, temporary |-> t,
           header |-> NoHeader] : t \in BOOLEAN}

\* retryDelayFromHeader
retryDelayFromHeader(h) ==
    IF h.kind # "int" \/ h.secs < 0 THEN 0 ELSE WrapDur(h.secs * Second)

\* A retryable test that takes every status from 400 up for retryable.
isRetryableHTTPStatusFrom400(code) == code >= 400

\* isRetryableHTTPStatus
isRetryableHTTPStatus(code) == code = 429 \/ (code >= 500 /\ code <= 599)

\* isRejectedHTTPStatus
isRejectedHTTPStatus(code) == code \in {429, 401, 403}

\* pickAPIKey: the index of the key, for len(keys) = n and the counter rr.
pickAPIKey(n, rr, rotated) ==
    IF n = 0 THEN -1
    ELSE IF n = 1 THEN 0
    ELSE IF rotated THEN ((rr % n) + 1) % n
    ELSE rr % n

\* atomic.AddUint32(&c.apiKeyRR, 1); the counter starts at 0 and grows by one
\* for each 2xx response, far from the wrap of a uint32.
advanceAPIKeyRR(rr) == rr + 1

\* The retryDecision the closure of TranslateBatch returns for a response, with
\* what it does on the way: whether it sets rotatedOnReject and whether it
\* calls advanceAPIKeyRR.
doDecision(r, n, attempt) ==
    IF r.kind = "net"
    THEN [err |-> TErr("net", 0, attempt), retry |-> r.temporary, delay |-> 0,
          rotated |-> FALSE, advance |-> FALSE]
    ELSE IF r.code < 200 \/ r.code >= 300
    THEN LET rot == isRejectedHTTPStatus(r.code) /\ n > 1
             retry == rot \/ isRetryableHTTPStatus(r.code)
         IN [err |-> TErr("http", r.code, attempt),
             retry |-> retry,
             delay |-> IF retry THEN retryDelayFromHeader(r.header) ELSE 0,
             rotated |-> rot, advance |-> FALSE]
    ELSE IF ~r.envelope
    THEN [err |-> TErr("envelope", r.code, attempt), retry |-> TRUE, delay |-> 0,
          rotated |-> FALSE, advance |-> n > 1]
    ELSE [err |-> NoTErr, retry |-> FALSE, delay |-> 0, rotated |-> FALSE,
          advance |-> n > 1]

\* if o.MaxAttempts <= 0 { o.MaxAttempts = 1 }
effectiveMaxAttempts(m) == IF m <= 0 THEN 1 ELSE m

\* A retry test that does not look at the decision.
shouldRetryAlways(retry, attempt, m) == attempt < m

\* d.retry && attempt < o.MaxAttempts
shouldRetry(retry, attempt, m) == retry /\ attempt < m

\* A choice of delay that never looks at the decision's.
retryDelayBackoffOnly(delay, backoffs) == backoffs

\* delay := d.delay; if delay <= 0 { delay = computeBackoff(attempt, o) }
retryDelay(delay, backoffs) == IF delay <= 0 THEN backoffs ELSE {delay}

\* The retry policies of the calls: nothing set, and a small one with jitter.
Policies == {ZeroPolicy,
             [BaseDelay |-> 1, MaxDelay |-> MaxPolicyDelay, Jitter |-> 1]}

\* A context check that never sees the cancellation.
ctxErrNeverSeen(done) == FALSE

\* ctx.Err() != nil
ctxErrSeen(done) == done

TransportInit ==
    /\ tnKeys \in 1..MaxKeys
    /\ tMaxAttempts \in 0..MaxAttempts
    /\ apiKeyRR = 0
    /\ tCancelled = FALSE
    /\ tpc = "top"
    /\ tattempt = 1
    /\ tcalls = 0
    /\ rotatedOnReject = FALSE
    /\ tkey = -1
    /\ tfirstKey = -1
    /\ trejKey = -1
    /\ tlast = NoDecision
    /\ tpolicy \in Policies
    /\ tsleep = -1
    /\ tretryAfter = NoHeader
    /\ tres = [done |-> FALSE, err |-> NoTErr]
    /\ tothers = 0
    /\ DispatcherOff
    /\ ValidatorOff
    /\ BatcherOff
    /\ BackoffOff
    /\ FormatOff
    /\ RestOff

TransportFrame == UNCHANGED <<tnKeys, tMaxAttempts, tpolicy, dispatchVars,
                              validatorVars, batcherVars, backoffVars,
                              formatVars, restVars>>

\* requestWithRetry returns err (NoTErr: it returns the value).
TReturn(err) ==
    /\ tpc' = "ret"
    /\ tres' = [done |-> TRUE, err |-> err]

\* The top of the loop of requestWithRetry: the ctx.Err() check, and do(attempt)
\* up to the request it sends: pickAPIKey, rotatedOnReject = false, doJSONPost.
RetryLoopTop ==
    /\ tpc = "top"
    /\ IF ctxErrSeen(tCancelled)
       THEN /\ TReturn(TErr("ctx", 0, 0))
            /\ UNCHANGED <<tcalls, tkey, tfirstKey, rotatedOnReject>>
       ELSE /\ tpc' = "do"
            /\ tcalls' = tcalls + 1
            /\ tkey' = pickAPIKey(tnKeys, apiKeyRR, rotatedOnReject)
            /\ tfirstKey' = IF tattempt = 1 THEN tkey' ELSE tfirstKey
            /\ rotatedOnReject' = FALSE
            /\ UNCHANGED tres
    /\ UNCHANGED <<apiKeyRR, tCancelled, tattempt, trejKey, tlast, tsleep,
                   tretryAfter, tothers>>
    /\ TransportFrame

\* The request comes back: the closure makes its decision, and requestWithRetry
\* returns the value, returns the error, or goes to sleep before the next attempt.
DoResponse ==
    /\ tpc = "do"
    /\ \E r \in Responses :
        LET d == doDecision(r, tnKeys, tattempt)
        IN /\ apiKeyRR' = IF d.advance THEN advanceAPIKeyRR(apiKeyRR) ELSE apiKeyRR
           /\ rotatedOnReject' = d.rotated
           /\ tlast' = [err |-> d.err, retry |-> d.retry]
           /\ trejKey' = IF r.kind = "http" /\ isRejectedHTTPStatus(r.code)
                         THEN tkey ELSE -1
           /\ IF d.err = NoTErr
              THEN TReturn(NoTErr) /\ UNCHANGED <<tsleep, tretryAfter>>
              ELSE IF shouldRetry(d.retry, tattempt,
                                  effectiveMaxAttempts(tMaxAttempts))
              THEN /\ tpc' = "sleep"
                   /\ tsleep' \in retryDelay(d.delay,
                                             computeBackoff(tattempt, tpolicy))
                   /\ tretryAfter' = r.header
                   /\ UNCHANGED tres
              ELSE TReturn(d.err) /\ UNCHANGED <<tsleep, tretryAfter>>
    /\ UNCHANGED <<tCancelled, tattempt, tcalls, tkey, tfirstKey, tothers>>
    /\ TransportFrame

\* The request in flight ends because its context was cancelled: the error is
\* no timeout, the decision is not to retry.
DoAbort ==
    /\ tpc = "do"
    /\ tCancelled
    /\ tlast' = [NoDecision EXCEPT !.err = TErr("aborted", 0, tattempt)]
    /\ trejKey' = -1
    /\ TReturn(TErr("aborted", 0, tattempt))
    /\ UNCHANGED <<apiKeyRR, tCancelled, tattempt, tcalls, tkey, tfirstKey,
                   rotatedOnReject, tsleep, tretryAfter, tothers>>
    /\ TransportFrame

\* sleepWithContext: the timer fires; continue, attempt++.
RetrySleepDone ==
    /\ tpc = "sleep"
    /\ tpc' = "top"
    /\ tattempt' = tattempt + 1
    /\ tsleep' = -1
    /\ tretryAfter' = NoHeader
    /\ UNCHANGED <<apiKeyRR, tCancelled, tcalls, tkey, tfirstKey, trejKey,
                   rotatedOnReject, tlast, tres, tothers>>
    /\ TransportFrame

\* sleepWithContext: ctx.Done() is ready; requestWithRetry returns ctx.Err().
RetrySleepCancelled ==
    /\ tpc = "sleep"
    /\ tCancelled
    /\ TReturn(TErr("ctx", 0, 0))
    /\ tsleep' = -1
    /\ tretryAfter' = NoHeader
    /\ UNCHANGED <<apiKeyRR, tCancelled, tattempt, tcalls, tkey, tfirstKey,
                   trejKey, rotatedOnReject, tlast, tothers>>
    /\ TransportFrame

\* The context of the call is cancelled.
TransportCancel ==
    /\ ~tCancelled
    /\ tpc # "ret"
    /\ tCancelled' = TRUE
    /\ UNCHANGED <<apiKeyRR, tpc, tattempt, tcalls, tkey, tfirstKey, trejKey,
                   rotatedOnReject, tlast, tres, tsleep, tretryAfter, tothers>>
    /\ TransportFrame

\* Another worker's TranslateBatch on the same client gets a 2xx response while
\* this call is under way, and calls advanceAPIKeyRR.
OtherCallerAdvance ==
    /\ tpc # "ret"
    /\ tnKeys > 1
    /\ tothers < MaxOtherResponses
    /\ tothers' = tothers + 1
    /\ apiKeyRR' = advanceAPIKeyRR(apiKeyRR)
    /\ UNCHANGED <<tCancelled, tpc, tattempt, tcalls, tkey, tfirstKey, trejKey,
                   rotatedOnReject, tlast, tres, tsleep, tretryAfter>>
    /\ TransportFrame

TransportNext ==
    \/ RetryLoopTop
    \/ DoResponse
    \/ DoAbort
    \/ RetrySleepDone
    \/ RetrySleepCancelled
    \/ TransportCancel
    \/ OtherCallerAdvance

TransportSpec == TransportInit /\ [][TransportNext]_vars

\* ------------------------------------------------------------ computeBackoff

\* The policies: BaseDelay and MaxDelay unset (0), negative, small, or the
\* largest duration; Jitter from below 0 to above 1.
PolicyDelays == (-1..MaxPolicyDelay) \cup {DurMax}

BackoffInit ==
    /\ kpc = "defaults"
    /\ kAttempt \in 1..MaxBackoffAttempt
    /\ kBaseDelay \in PolicyDelays
    /\ kMaxDelay \in PolicyDelays
    /\ kJitter \in -1..(JitterDen + 1)
    /\ kDraw \in 0..(DrawDen - 1)
    /\ kD = 0
    /\ DispatcherOff
    /\ ValidatorOff
    /\ BatcherOff
    /\ TransportOff
    /\ FormatOff
    /\ RestOff

BackoffFrame == UNCHANGED <<kDraw, dispatchVars, validatorVars, batcherVars,
                            transportVars, formatVars, restVars>>

\* computeBackoff: the defaults of attempt and of the policy.
BackoffDefaults ==
    /\ kpc = "defaults"
    /\ kAttempt' = IF kAttempt < 1 THEN 1 ELSE kAttempt
    /\ kBaseDelay' = IF kBaseDelay <= 0 THEN FallbackBaseDelay ELSE kBaseDelay
    /\ kMaxDelay' = IF kMaxDelay <= 0 THEN FallbackMaxDelay ELSE kMaxDelay
    /\ kJitter' = IF kJitter < 0 THEN 0
                  ELSE IF kJitter > JitterDen THEN JitterDen ELSE kJitter
    /\ kpc' = "exponential"
    /\ UNCHANGED kD
    /\ BackoffFrame

\* computeBackoff: d := base * 2^(attempt-1), clamped; return d when there is
\* no jitter.
BackoffExponential ==
    /\ kpc = "exponential"
    /\ \E v \in DurationOf(kBaseDelay * 2 ^ (kAttempt - 1)) :
           kD' = clampExponential(v, kMaxDelay)
    /\ kpc' = IF kJitter > 0 THEN "jitter" ELSE "ret"
    /\ UNCHANGED <<kAttempt, kBaseDelay, kMaxDelay, kJitter>>
    /\ BackoffFrame

\* computeBackoff: the jitter, clamped; return d.
BackoffJitter ==
    /\ kpc = "jitter"
    /\ \E v \in DurationOf(jittered(kD, kJitter, kDraw)) :
           kD' = clampJitter(v, kMaxDelay)
    /\ kpc' = "ret"
    /\ UNCHANGED <<kAttempt, kBaseDelay, kMaxDelay, kJitter>>
    /\ BackoffFrame

BackoffNext ==
    \/ BackoffDefaults
    \/ BackoffExponential
    \/ BackoffJitter

BackoffSpec == BackoffInit /\ [][BackoffNext]_vars

\* The calls with a policy whose BaseDelay and MaxDelay are positive and whose
\* Jitter is 0.
PlainBackoffInit ==
    /\ BackoffInit
    /\ kBaseDelay > 0
    /\ kMaxDelay > 0
    /\ kJitter = 0

PlainBackoffNext == BackoffDefaults \/ BackoffExponential

PlainBackoffSpec == PlainBackoffInit /\ [][PlainBackoffNext]_vars

\* ------------------------------------------------------- texts as characters

\* A text is the sequence of its characters; the characters with a role in
\* the formats are named: "QUOTE", "BACKSLASH", "LF", "CR", "SP", "TAB",
\* "TICK" (the backquote of a code fence).

\* The whitespace the scanners of format.go and of encoding/json skip.
IsWS(c) == c \in {"SP", "TAB", "LF", "CR"}

SetMin(S) == CHOOSE i \in S : \A j \in S : i <= j

SetMax(S) == CHOOSE i \in S : \A j \in S : i >= j

\* The positions where sub occurs in s.
Occurs(s, sub) ==
    {i \in 1..(Len(s) - Len(sub) + 1) : SubSeq(s, i, i + Len(sub) - 1) = sub}

\* strings.Index, 1-based; 0 when sub does not occur.
Index(s, sub) == IF Occurs(s, sub) = {} THEN 0 ELSE SetMin(Occurs(s, sub))

\* strings.LastIndex, 1-based; 0 when sub does not occur.
LastIndex(s, sub) == IF Occurs(s, sub) = {} THEN 0 ELSE SetMax(Occurs(s, sub))

\* The first position from p on that holds a character of cs; past the end
\* when there is none.
FirstOf(s, p, cs) ==
    LET ps == {j \in p..Len(s) : s[j] \in cs}
    IN IF ps = {} THEN Len(s) + 1 ELSE SetMin(ps)

\* strings.HasPrefix
HasPrefix(s, pre) == Len(s) >= Len(pre) /\ SubSeq(s, 1, Len(pre)) = pre

RECURSIVE TrimLeft(_)
TrimLeft(s) == IF s # <<>> /\ IsWS(Head(s)) THEN TrimLeft(Tail(s)) ELSE s

RECURSIVE TrimRight(_)
TrimRight(s) ==
    IF s # <<>> /\ IsWS(s[Len(s)])
    THEN TrimRight(SubSeq(s, 1, Len(s) - 1)) ELSE s

\* strings.TrimSpace
TrimSpace(s) == TrimRight(TrimLeft(s))

\* strings.Split(s, LF)
RECURSIVE SplitLines(_)
SplitLines(s) ==
    LET i == Index(s, <<"LF">>)
    IN IF i = 0 THEN <<s>>
       ELSE <<SubSeq(s, 1, i - 1)>> \o SplitLines(SubSeq(s, i + 1, Len(s)))

\* The first position from p on that holds no whitespace.
RECURSIVE SkipWS(_, _)
SkipWS(s, p) == IF p <= Len(s) /\ IsWS(s[p]) THEN SkipWS(s, p + 1) ELSE p

Fence == <<"TICK", "TICK", "TICK">>

\* stripCodeFences, from the search for the closing fence on.
StripClosingFence(s1) ==
    LET j == LastIndex(s1, Fence)
    IN IF j > 0 THEN SubSeq(s1, 1, j - 1) ELSE s1

\* stripCodeFences: the text after its first line, or all of it when it has
\* one line only.
AfterFirstLine(s) ==
    LET i == Index(s, <<"LF">>)
    IN IF i > 0 THEN SubSeq(s, i + 1, Len(s)) ELSE s

\* stripCodeFences, for the trimmed text.
StripFences(s) ==
    IF s = <<>> \/ ~HasPrefix(s, Fence) THEN s
    ELSE StripClosingFence(AfterFirstLine(s))

\* stripCodeFences
stripCodeFences(s0) == StripFences(TrimSpace(s0))

\* The trimmed text, whatever its length.
unabbreviated(s0, max) == TrimSpace(s0)

\* abbreviate
abbreviate(s0, max) ==
    LET s == TrimSpace(s0)
    IN IF max <= 0 \/ Len(s) <= max THEN s
       ELSE IF max <= 3 THEN SubSeq(s, 1, max)
       ELSE SubSeq(s, 1, max - 3) \o <<".", ".", ".">>

\* ------------------------------------------------ encoding/json, as used

Digits == <<"0", "1", "2", "3", "4", "5", "6", "7", "8", "9">>

IsDigit(c) == \E d \in 1..10 : Digits[d] = c

DigitVal(c) == (CHOOSE d \in 1..10 : Digits[d] = c) - 1

\* json.Marshal(wireItem{Idx: idx, Text: text}) for idx >= 0.
MarshalWireItem(idx, text) ==
    <<"{", "QUOTE", "i", "d", "x", "QUOTE", ":">>
        \o DigitsOf(idx)
        \o <<",", "QUOTE", "t", "e", "x", "t", "QUOTE", ":", "QUOTE">>
        \o EscapeString(text)
        \o <<"QUOTE", "}">>

\* A failed scan.
NoScan == [ok |-> FALSE, next |-> 0, kind |-> "none", int |-> 0, str |-> <<>>]

\* The body of a JSON string from p on, up to its closing quote: the escapes
\* \" \\ \n \r \t and < are decoded (the only ones the texts here hold), a
\* control character or another escape is an error.
\* The plain characters from p on are taken in one step, up to the next
\* quote, backslash or control character.
RECURSIVE StringBody(_, _, _)

\* The body of a JSON string at the escape that starts at position e, with the
\* characters decoded before it.
StringEscape(s, e, acc) ==
    CASE s[e + 1] = "QUOTE" -> StringBody(s, e + 2, Append(acc, "QUOTE"))
      [] s[e + 1] = "BACKSLASH" -> StringBody(s, e + 2, Append(acc, "BACKSLASH"))
      [] s[e + 1] = "n" -> StringBody(s, e + 2, Append(acc, "LF"))
      [] s[e + 1] = "r" -> StringBody(s, e + 2, Append(acc, "CR"))
      [] s[e + 1] = "t" -> StringBody(s, e + 2, Append(acc, "TAB"))
      [] /\ s[e + 1] = "u"
         /\ e + 5 <= Len(s)
         /\ SubSeq(s, e + 2, e + 5) = <<"0", "0", "3", "c">> ->
             StringBody(s, e + 6, Append(acc, "<"))
      [] OTHER -> NoScan

\* The body of a JSON string at position e, the first one from p on that
\* holds no plain character.
StringBodyAt(s, p, acc0, e) ==
    IF e > Len(s) THEN NoScan
    ELSE IF s[e] = "QUOTE"
    THEN [ok |-> TRUE, next |-> e + 1, kind |-> "string", int |-> 0,
          str |-> acc0 \o SubSeq(s, p, e - 1)]
    ELSE IF s[e] # "BACKSLASH" \/ e + 1 > Len(s) THEN NoScan
    ELSE StringEscape(s, e, acc0 \o SubSeq(s, p, e - 1))

StringBody(s, p, acc0) ==
    StringBodyAt(s, p, acc0,
                 FirstOf(s, p, {"QUOTE", "BACKSLASH", "LF", "CR", "TAB"}))

\* The digits from p on.
RECURSIVE DigitRun(_, _, _)
DigitRun(s, p, acc) ==
    IF p <= Len(s) /\ IsDigit(s[p])
    THEN DigitRun(s, p + 1, acc * 10 + DigitVal(s[p]))
    ELSE [next |-> p, val |-> acc]

\* The whole number whose digits, read from q on, gave run.
IntOf(neg, q, run) ==
    IF run.next = q THEN NoScan
    ELSE [ok |-> TRUE, next |-> run.next, kind |-> "int",
          int |-> IF neg THEN 0 - run.val ELSE run.val, str |-> <<>>]

\* The digits of a JSON whole number from q on: 0, or digits that do not
\* start with 0.
IntDigits(s, q) ==
    IF q <= Len(s) /\ s[q] = "0"
    THEN [next |-> q + 1, val |-> 0] ELSE DigitRun(s, q, 0)

\* A JSON whole number at p: an optional minus, then 0 or digits that do not
\* start with 0.
ScanInt(s, p) ==
    IF p <= Len(s) /\ s[p] = "-"
    THEN IntOf(TRUE, p + 1, IntDigits(s, p + 1))
    ELSE IntOf(FALSE, p, IntDigits(s, p))

\* A JSON value at p, of the two kinds the objects here hold: a string or a
\* whole number.
ScanValue(s, p) ==
    IF p > Len(s) THEN NoScan
    ELSE IF s[p] = "QUOTE" THEN StringBody(s, p + 1, <<>>)
    ELSE IF s[p] = "-" \/ IsDigit(s[p]) THEN ScanInt(s, p)
    ELSE NoScan

\* The wireItem before any field is set.
ZeroItem == [Idx |-> 0, Text |-> <<>>, mismatch |-> FALSE]

\* The field of a wireItem a key names gets the value, when its kind fits.
SetField(it, key, v) ==
    IF key = <<"i", "d", "x">>
    THEN IF v.kind = "int" THEN [it EXCEPT !.Idx = v.int]
         ELSE [it EXCEPT !.mismatch = TRUE]
    ELSE IF key = <<"t", "e", "x", "t">>
    THEN IF v.kind = "string" THEN [it EXCEPT !.Text = v.str]
         ELSE [it EXCEPT !.mismatch = TRUE]
    ELSE it

NoObject == [ok |-> FALSE, next |-> 0, item |-> ZeroItem]

\* The members of a JSON object from the key at p on, up to its closing brace.
RECURSIVE Members(_, _, _)

\* After a member of the object: position d holds its closing brace, or the
\* comma before the next member.
MemberEnd(s, it, d) ==
    IF d > Len(s) THEN NoObject
    ELSE IF s[d] = "}" THEN [ok |-> TRUE, next |-> d + 1, item |-> it]
    ELSE IF s[d] = "," THEN Members(s, SkipWS(s, d + 1), it)
    ELSE NoObject

\* The member with the given key has the scanned value v.
MemberValue(s, it, key, v) ==
    IF ~v.ok THEN NoObject
    ELSE MemberEnd(s, SetField(it, key, v), SkipWS(s, v.next))

\* After the key of a member: position c holds the colon.
MemberColon(s, it, key, c) ==
    IF c > Len(s) \/ s[c] # ":" THEN NoObject
    ELSE MemberValue(s, it, key, ScanValue(s, SkipWS(s, c + 1)))

\* The key of a member has been scanned as k.
MemberKey(s, it, k) ==
    IF ~k.ok THEN NoObject
    ELSE MemberColon(s, it, k.str, SkipWS(s, k.next))

Members(s, p, it) ==
    IF p > Len(s) \/ s[p] # "QUOTE" THEN NoObject
    ELSE MemberKey(s, it, StringBody(s, p + 1, <<>>))

\* The object whose first character after the brace and whitespace is at q.
ObjectAt(s, q) ==
    IF q <= Len(s) /\ s[q] = "}"
    THEN [ok |-> TRUE, next |-> q + 1, item |-> ZeroItem]
    ELSE Members(s, q, ZeroItem)

\* A JSON object at p, decoded into a wireItem.
ScanObject(s, p) ==
    IF p > Len(s) \/ s[p] # "{" THEN NoObject
    ELSE ObjectAt(s, SkipWS(s, p + 1))

\* The wireItem of the scanned object o, when nothing follows it in s.
WireItemOf(s, o) ==
    IF o.ok /\ SkipWS(s, o.next) > Len(s) /\ ~o.item.mismatch
    THEN [ok |-> TRUE, Idx |-> o.item.Idx, Text |-> o.item.Text]
    ELSE [ok |-> FALSE, Idx |-> 0, Text |-> <<>>]

\* json.Unmarshal([]byte(s), &it) for a wireItem: ok when s is one object and
\* nothing else, and its idx and text have the kinds of the fields.
UnmarshalWireItem(s) == WireItemOf(s, ScanObject(s, SkipWS(s, 1)))

NoElements == [ok |-> FALSE, next |-> 0, items |-> <<>>]

\* The elements of a JSON array from the element at p on, up to its bracket.
RECURSIVE Elements(_, _, _)

\* After an element of the array: position d holds its closing bracket, or
\* the comma before the next element.
ElementEnd(s, acc, d) ==
    IF d > Len(s) THEN NoElements
    ELSE IF s[d] = "]" THEN [ok |-> TRUE, next |-> d + 1, items |-> acc]
    ELSE IF s[d] = "," THEN Elements(s, SkipWS(s, d + 1), acc)
    ELSE NoElements

\* An element has been scanned as the object o.
ElementOf(s, acc, o) ==
    IF ~o.ok THEN NoElements
    ELSE ElementEnd(s, Append(acc, o.item), SkipWS(s, o.next))

Elements(s, p, acc) == ElementOf(s, acc, ScanObject(s, p))

\* The array whose first character after the bracket and whitespace is at q.
ArrayAt(s, q) ==
    IF q <= Len(s) /\ s[q] = "]"
    THEN [ok |-> TRUE, next |-> q + 1, items |-> <<>>]
    ELSE Elements(s, q, <<>>)

\* A JSON array of objects at p.
ScanArray(s, p) ==
    IF p > Len(s) \/ s[p] # "[" THEN NoElements
    ELSE ArrayAt(s, SkipWS(s, p + 1))

\* The wireItems of the scanned array a, when nothing follows it in s.
WireItemsOf(s, a) ==
    IF a.ok /\ SkipWS(s, a.next) > Len(s)
       /\ \A i \in 1..Len(a.items) : ~a.items[i].mismatch
    THEN [ok |-> TRUE, items |-> a.items]
    ELSE [ok |-> FALSE, items |-> <<>>]

\* json.Unmarshal([]byte(s), &items) for a []wireItem whose elements are
\* objects.
UnmarshalWireItems(s) == WireItemsOf(s, ScanArray(s, SkipWS(s, 1)))

\* ------------------------------------------------------ ParseTranslatedLines

\* The errors of the decoder: the tier that made it, what it found (text that
\* is no JSON, an idx that is not positive, nothing at all), the number of the
\* line and the excerpt of it, for the tiers that work line by line.
PErr(tier, what) == [tier |-> tier, what |-> what, line |-> 0, excerpt |-> <<>>]

LineErr(tier, what, lineNo, line) ==
    [tier |-> tier, what |-> what, line |-> lineNo,
     excerpt |-> abbreviate(line, AbbreviationMax)]

\* What a tier returns: the lines with the number of salvaged ones, or an error.
POk(tier, lines, salvaged) ==
    [ok |-> TRUE, tier |-> tier, lines |-> lines, salvaged |-> salvaged,
     err |-> NoPErr]

PFail(tier, err) ==
    [ok |-> FALSE, tier |-> tier, lines |-> <<>>, salvaged |-> 0, err |-> err]

\* ParsedLine{Idx: it.Idx, Text: it.Text}
ParsedLine(it) == [Idx |-> it.Idx, Text |-> it.Text]

\* No idx counts as invalid.
invalidIdxNever(idx) == FALSE

\* it.Idx <= 0, the test every tier makes on an item.
invalidIdx(idx) == idx <= 0

\* The result of parseWireItemsJSONArray for what json.Unmarshal gave.
ArrayResult(u) ==
    IF ~u.ok THEN PFail("array", PErr("array", "json"))
    ELSE IF \E i \in 1..Len(u.items) : invalidIdx(u.items[i].Idx)
    THEN PFail("array", PErr("array", "idx"))
    ELSE IF Len(u.items) = 0 THEN PFail("array", PErr("array", "nothing"))
    ELSE POk("array", [i \in 1..Len(u.items) |-> ParsedLine(u.items[i])], 0)

\* parseWireItemsJSONArray
parseWireItemsJSONArray(trim) == ArrayResult(UnmarshalWireItems(trim))

\* The backslashes that stand in a row just before position j, none of them
\* before position lo.
BackslashRun(s, lo, j) ==
    LET others == {k \in lo..(j - 1) : s[k] # "BACKSLASH"}
    IN IF others = {} THEN j - lo ELSE j - 1 - SetMax(others)

\* A scan that leaves a string at its first quote, escaped or not.
ClosingQuoteAny(s, i) == FirstOf(s, i, {"QUOTE"})

\* Where the scan of extractJSONObjectSegmentsWithOffsets leaves the string
\* it entered just before position i: the first quote from i on that its esc
\* flag does not cover, which is a quote after an even run of backslashes;
\* past the end when there is none.
ClosingQuote(s, i) ==
    LET qs == {j \in i..Len(s) :
                  s[j] = "QUOTE" /\ BackslashRun(s, i, j) % 2 = 0}
    IN IF qs = {} THEN Len(s) + 1 ELSE SetMin(qs)

\* The next position from i on, outside a string, where the scan does
\* something: a quote or a brace; past the end when there is none.
NextEvent(s, i) == FirstOf(s, i, {"QUOTE", "{", "}"})

\* The loop of extractJSONObjectSegmentsWithOffsets from position i on,
\* outside a string, with its depth, start (0 for none) and res; the
\* characters the loop passes over without a change of its variables are
\* skipped in one step.
RECURSIVE Segments(_, _, _, _, _)

\* The loop at position j, which holds a quote or a brace or lies past the
\* end.
SegmentsAt(s, j, depth, start, res) ==
    IF j > Len(s) THEN res
    ELSE CASE s[j] = "QUOTE" ->
                  Segments(s, ClosingQuote(s, j + 1) + 1, depth, start, res)
           [] s[j] = "{" ->
                  Segments(s, j + 1, depth + 1,
                           IF depth = 0 THEN j ELSE start, res)
           [] s[j] = "}" /\ depth = 0 ->
                  Segments(s, j + 1, depth, start, res)
           [] s[j] = "}" /\ depth = 1 /\ start > 0 ->
                  Segments(s, j + 1, 0, 0,
                           Append(res,
                                  [Start |-> start,
                                   JSON |-> TrimSpace(SubSeq(s, start, j))]))
           [] OTHER -> Segments(s, j + 1, depth - 1, start, res)

Segments(s, i, depth, start, res) ==
    SegmentsAt(s, NextEvent(s, i), depth, start, res)

extractJSONObjectSegmentsWithOffsets(s) == Segments(s, 1, 0, 0, <<>>)

\* parseWireItemsByBraces: the loop over the segments from the n-th on.
RECURSIVE ByBraces(_, _, _)

\* The body of the loop for the n-th segment, which json.Unmarshal gave it.
ByBracesItem(objs, n, res, it) ==
    IF ~it.ok THEN PFail("braces", PErr("braces", "json"))
    ELSE IF invalidIdx(it.Idx) THEN PFail("braces", PErr("braces", "idx"))
    ELSE ByBraces(objs, n + 1, Append(res, ParsedLine(it)))

ByBraces(objs, n, res) ==
    IF n > Len(objs) THEN POk("braces", res, 0)
    ELSE ByBracesItem(objs, n, res, UnmarshalWireItem(objs[n].JSON))

\* parseWireItemsByBraces, for the segments of the text.
BracesResult(objs) ==
    IF Len(objs) = 0 THEN PFail("braces", PErr("braces", "nothing"))
    ELSE ByBraces(objs, 1, <<>>)

\* parseWireItemsByBraces
parseWireItemsByBraces(s) ==
    BracesResult(extractJSONObjectSegmentsWithOffsets(s))

\* parseWireItemsByLines: the loop over the lines from the n-th on.
RECURSIVE ByLines(_, _, _)

\* The body of the loop for the n-th line, which is not blank and which
\* json.Unmarshal gave it.
ByLinesItem(lines, n, res, line, it) ==
    IF ~it.ok THEN PFail("lines", LineErr("lines", "json", n, line))
    ELSE IF invalidIdx(it.Idx)
    THEN PFail("lines", LineErr("lines", "idx", n, line))
    ELSE ByLines(lines, n + 1, Append(res, ParsedLine(it)))

\* The body of the loop for the n-th line, trimmed.
ByLinesLine(lines, n, res, line) ==
    IF line = <<>> THEN ByLines(lines, n + 1, res)
    ELSE ByLinesItem(lines, n, res, line, UnmarshalWireItem(line))

ByLines(lines, n, res) ==
    IF n > Len(lines)
    THEN IF Len(res) = 0 THEN PFail("lines", PErr("lines", "nothing"))
         ELSE POk("lines", res, 0)
    ELSE ByLinesLine(lines, n, res, TrimSpace(lines[n]))

\* parseWireItemsByLines
parseWireItemsByLines(trim) == ByLines(SplitLines(trim), 1, <<>>)

\* strings.IndexByte(s[from:], c), as a position of s; 0 when there is none.
IndexFrom(s, c, from) ==
    LET ps == {i \in from..Len(s) : s[i] = c}
    IN IF ps = {} THEN 0 ELSE SetMin(ps)

\* A test for the end of the text that knows the closing brace only.
IsTerminatorBraceOnly(obj, q) ==
    LET k == SkipWS(obj, q + 1)
    IN k <= Len(obj) /\ obj[k] = "}"

\* Whether the quote at q ends the text: what follows it, after whitespace,
\* is "}" or a comma and, after whitespace, a quote.
IsTerminator(obj, q) ==
    LET k == SkipWS(obj, q + 1)
        k2 == SkipWS(obj, k + 1)
    IN /\ k <= Len(obj)
       /\ \/ obj[k] = "}"
          \/ (obj[k] = "," /\ k2 <= Len(obj) /\ obj[k2] = "QUOTE")

\* extractIdxAndTextBestEffort: the loop that collects the raw text from
\* position q on; it returns where it stopped and what it collected.
\* The characters that are neither quote nor backslash are taken in one step.
RECURSIVE RawText(_, _, _)

\* The loop at position q, which holds a quote or a backslash or lies past
\* the end.
RawTextAt(obj, q, raw) ==
    IF q > Len(obj) THEN [q |-> q, raw |-> raw]
    ELSE IF obj[q] = "QUOTE"
    THEN IF IsTerminator(obj, q) THEN [q |-> q, raw |-> raw]
         ELSE RawText(obj, q + 1, raw \o <<"BACKSLASH", "QUOTE">>)
    ELSE IF q + 1 > Len(obj)
    THEN [q |-> q + 1, raw |-> Append(raw, "BACKSLASH")]
    ELSE RawText(obj, q + 2, raw \o <<"BACKSLASH", obj[q + 1]>>)

\* The plain characters from q0 up to position q are collected as they are.
RawTextTo(obj, q0, raw0, q) ==
    RawTextAt(obj, q, raw0 \o SubSeq(obj, q0, q - 1))

RawText(obj, q0, raw0) ==
    RawTextTo(obj, q0, raw0, FirstOf(obj, q0, {"QUOTE", "BACKSLASH"}))

\* extractIdxAndTextBestEffort, from json.Unmarshal of the wrapped raw text
\* on.
BestEffortDecoded(parsedIdx, rawLen, decoded) ==
    IF ~decoded.ok \/ decoded.next # rawLen + 2 THEN NoExtract
    ELSE [ok |-> TRUE, Idx |-> parsedIdx, Text |-> decoded.str]

\* extractIdxAndTextBestEffort, after the loop that collects the raw text.
BestEffortBody(obj, parsedIdx, body) ==
    IF body.q > Len(obj) THEN NoExtract
    ELSE BestEffortDecoded(parsedIdx, Len(body.raw),
                           StringBody(body.raw \o <<"QUOTE">>, 1, <<>>))

\* extractIdxAndTextBestEffort, at the position q where the text value is to
\* start.
BestEffortQuote(obj, parsedIdx, q) ==
    IF q > Len(obj) \/ obj[q] # "QUOTE" THEN NoExtract
    ELSE BestEffortBody(obj, parsedIdx, RawText(obj, q + 1, <<>>))

\* extractIdxAndTextBestEffort, at the colon after the text key.
BestEffortTextColon(obj, parsedIdx, colon2) ==
    IF colon2 = 0 THEN NoExtract
    ELSE BestEffortQuote(obj, parsedIdx, SkipWS(obj, colon2 + 1))

\* extractIdxAndTextBestEffort, from the search for the text key on.
BestEffortText(obj, parsedIdx, textKey) ==
    IF textKey = 0 THEN NoExtract
    ELSE BestEffortTextColon(obj, parsedIdx, IndexFrom(obj, ":", textKey))

\* extractIdxAndTextBestEffort, with the digits of the idx read as run.
BestEffortNumber(obj, neg, startNum, run) ==
    IF run.next = startNum \/ (neg /\ run.next = startNum + 1) THEN NoExtract
    ELSE BestEffortText(obj, IF neg THEN 0 - run.val ELSE run.val,
                        Index(obj, <<"QUOTE", "t", "e", "x", "t", "QUOTE">>))

\* extractIdxAndTextBestEffort, at the position where the idx value is to
\* start.
BestEffortStartNum(obj, startNum) ==
    IF startNum > Len(obj) THEN NoExtract
    ELSE IF obj[startNum] = "-"
    THEN BestEffortNumber(obj, TRUE, startNum, DigitRun(obj, startNum + 1, 0))
    ELSE BestEffortNumber(obj, FALSE, startNum, DigitRun(obj, startNum, 0))

\* extractIdxAndTextBestEffort, at the colon after the idx key.
BestEffortIdxColon(obj, colon) ==
    IF colon = 0 THEN NoExtract
    ELSE BestEffortStartNum(obj, SkipWS(obj, colon + 1))

\* extractIdxAndTextBestEffort, from the search for the idx key on.
BestEffortIdx(obj, idxPos) ==
    IF idxPos = 0 THEN NoExtract
    ELSE BestEffortIdxColon(obj, IndexFrom(obj, ":", idxPos))

\* extractIdxAndTextBestEffort, for the trimmed object.
BestEffortTrimmed(obj) ==
    IF obj = <<>> THEN NoExtract
    ELSE BestEffortIdx(obj, Index(obj, <<"QUOTE", "i", "d", "x", "QUOTE">>))

\* extractIdxAndTextBestEffort: ok is false where the code returns !ok or an
\* error.
extractIdxAndTextBestEffort(obj0) == BestEffortTrimmed(TrimSpace(obj0))

\* The line as the targeted repair gave it.
Salvaged(x) ==
    [ok |-> x.ok /\ ~invalidIdx(x.Idx), Idx |-> x.Idx, Text |-> x.Text,
     salvaged |-> 1]

\* A repair of a line that does not try the strict parse first.
repairLineAlways(line) == Salvaged(extractIdxAndTextBestEffort(line))

\* The line as the strict parse gave it, or else as the repair gave it.
StrictOrSalvaged(it, x) ==
    IF it.ok
    THEN [ok |-> ~invalidIdx(it.Idx), Idx |-> it.Idx, Text |-> it.Text,
          salvaged |-> 0]
    ELSE Salvaged(x)

\* parseWireItemsByLinesWithRepair, for one non-blank line: the strict parse,
\* and the targeted repair when it fails.
repairLine(line) ==
    StrictOrSalvaged(UnmarshalWireItem(line), extractIdxAndTextBestEffort(line))

\* parseWireItemsByLinesWithRepair: the loop over the lines from the n-th on.
RECURSIVE ByLinesWithRepair(_, _, _, _)

\* The body of the loop for the n-th line, which is not blank and which the
\* strict parse or the repair gave r.
ByLinesWithRepairItem(lines, n, res, salvaged, line, r) ==
    IF ~r.ok
    THEN PFail("linesRepair",
               LineErr("linesRepair",
                       IF r.salvaged = 0 THEN "idx" ELSE "json", n, line))
    ELSE ByLinesWithRepair(lines, n + 1, Append(res, ParsedLine(r)),
                           salvaged + r.salvaged)

\* The body of the loop for the n-th line, trimmed.
ByLinesWithRepairLine(lines, n, res, salvaged, line) ==
    IF line = <<>> THEN ByLinesWithRepair(lines, n + 1, res, salvaged)
    ELSE ByLinesWithRepairItem(lines, n, res, salvaged, line, repairLine(line))

ByLinesWithRepair(lines, n, res, salvaged) ==
    IF n > Len(lines)
    THEN IF Len(res) = 0 THEN PFail("linesRepair", PErr("linesRepair", "nothing"))
         ELSE POk("linesRepair", res, salvaged)
    ELSE ByLinesWithRepairLine(lines, n, res, salvaged, TrimSpace(lines[n]))

\* parseWireItemsByLinesWithRepair
parseWireItemsByLinesWithRepair(trim) ==
    ByLinesWithRepair(SplitLines(trim), 1, <<>>, 0)

\* parseWireItemsByRepairingText: the loop over the segments from the n-th on.
RECURSIVE ByRepairingText(_, _, _)

\* The body of the loop for the n-th segment, whose repaired idx and text,
\* marshalled, json.Unmarshal gave it.
ByRepairingTextItem(segs, n, res, it) ==
    IF ~it.ok THEN PFail("segmentsRepair", PErr("segmentsRepair", "json"))
    ELSE ByRepairingText(segs, n + 1, Append(res, ParsedLine(it)))

\* The body of the loop for the n-th segment, which the repair gave x.
ByRepairingTextSegment(segs, n, res, x) ==
    IF ~x.ok THEN PFail("segmentsRepair", PErr("segmentsRepair", "json"))
    ELSE IF invalidIdx(x.Idx)
    THEN PFail("segmentsRepair", PErr("segmentsRepair", "idx"))
    ELSE ByRepairingTextItem(segs, n, res,
                             UnmarshalWireItem(MarshalWireItem(x.Idx, x.Text)))

ByRepairingText(segs, n, res) ==
    IF n > Len(segs) THEN POk("segmentsRepair", res, 0)
    ELSE ByRepairingTextSegment(segs, n, res,
                                extractIdxAndTextBestEffort(segs[n].JSON))

\* parseWireItemsByRepairingText, for the segments of the text.
RepairingTextResult(segs) ==
    IF Len(segs) = 0
    THEN PFail("segmentsRepair", PErr("segmentsRepair", "nothing"))
    ELSE ByRepairingText(segs, 1, <<>>)

\* parseWireItemsByRepairingText
parseWireItemsByRepairingText(s) ==
    RepairingTextResult(extractJSONObjectSegmentsWithOffsets(s))

\* strings.Join(lines, LF)
RECURSIVE JoinLines(_)
JoinLines(lines) ==
    IF Len(lines) = 0 THEN <<>>
    ELSE IF Len(lines) = 1 THEN lines[1]
    ELSE lines[1] \o <<"LF">> \o JoinLines(Tail(lines))

\* The line without the carriage return it ends with, if it ends with one.
DropEndCR(line) ==
    IF line # <<>> /\ line[Len(line)] = "CR"
    THEN SubSeq(line, 1, Len(line) - 1) ELSE line

\* The lines without the carriage return that ends each one but the last.
DropLineEndCRs(lines) ==
    [n \in 1..Len(lines) |->
        IF n < Len(lines) THEN DropEndCR(lines[n]) ELSE lines[n]]

\* strings.ReplaceAll(out, CR LF, LF) on a whole output: a carriage return
\* goes exactly when a line feed follows it, that is at the end of every line
\* but the last.
ReplaceAllCRLF(out) == JoinLines(DropLineEndCRs(SplitLines(out)))

\* The head of ParseTranslatedLines: CR LF to LF, stripCodeFences, TrimSpace.
normalizeOutput(out) == TrimSpace(stripCodeFences(ReplaceAllCRLF(out)))

\* The tiers ParseTranslatedLines goes through for a text that does not start
\* with "[", in its order.
FallbackTiers == <<"braces", "lines", "linesRepair", "segmentsRepair">>

\* What a tier gives for the normalized text.
RunTier(tier, out) ==
    CASE tier = "array" -> parseWireItemsJSONArray(out)
      [] tier = "braces" -> parseWireItemsByBraces(out)
      [] tier = "lines" -> parseWireItemsByLines(out)
      [] tier = "linesRepair" -> parseWireItemsByLinesWithRepair(out)
      [] tier = "segmentsRepair" -> parseWireItemsByRepairingText(out)

\* ParseTranslatedLines from its n-th fallback tier on.
RECURSIVE ParseFrom(_, _)

\* The n-th fallback tier gave r: its result is returned when it is no error.
ParseFromTier(out, n, r) == IF r.ok THEN r ELSE ParseFrom(out, n + 1)

ParseFrom(out, n) ==
    IF n > Len(FallbackTiers) THEN parseWireItemsByLines(out)
    ELSE ParseFromTier(out, n, RunTier(FallbackTiers[n], out))

\* ParseTranslatedLines, for the normalized output.
ParseNormalized(out) ==
    IF out = <<>> THEN PFail("none", PErr("none", "empty"))
    ELSE IF HasPrefix(out, <<"[">>) THEN parseWireItemsJSONArray(out)
    ELSE ParseFrom(out, 1)

\* ParseTranslatedLines, on the text of the output, character by character.
ParseTranslatedLinesText(raw) == ParseNormalized(normalizeOutput(raw))

\* ------------------------------------------- ParseTranslatedLines, by steps

\* A wire item whose text is written as it is, its quotes unescaped.
RawWireItem(idx, text) ==
    <<"{", "QUOTE", "i", "d", "x", "QUOTE", ":">>
        \o DigitsOf(idx)
        \o <<",", "QUOTE", "t", "e", "x", "t", "QUOTE", ":", "QUOTE">>
        \o text
        \o <<"QUOTE", "}">>

\* A line of prose longer than AbbreviationMax.
LongLine == [i \in 1..(AbbreviationMax + MaxOverLength) |-> "a"]

\* The lines an output is made of: a wire item, one with an escaped quote
\* and a brace in its text, one with unescaped quotes in its text, one with
\* idx 0, prose longer than the excerpt of an error may be, a blank line, a
\* wire item cut short, and two wire items on one line.
SampleLines ==
    {MarshalWireItem(1, <<"a">>),
     MarshalWireItem(2, <<"QUOTE", "}">>),
     RawWireItem(3, <<"QUOTE", "b", "QUOTE">>),
     MarshalWireItem(0, <<"a">>),
     LongLine,
     <<"SP">>,
     SubSeq(MarshalWireItem(1, <<"a">>), 1, 18),
     MarshalWireItem(1, <<"a">>) \o <<"SP">> \o MarshalWireItem(2, <<"b">>)}

\* The shapes of an output: the lines as they are, with CR LF line ends and
\* within spaces, in a code fence, as a JSON array, and after a bracketed
\* word.
OutputShapes == {"plain", "crlf", "fence", "array", "bracket"}

\* The lines joined by sep.
RECURSIVE JoinWith(_, _)
JoinWith(lines, sep) ==
    IF Len(lines) = 0 THEN <<>>
    ELSE IF Len(lines) = 1 THEN lines[1]
    ELSE lines[1] \o sep \o JoinWith(Tail(lines), sep)

\* The output of the given shape that holds the lines.
ShapedOutput(shape, lines) ==
    CASE shape = "plain" -> JoinWith(lines, <<"LF">>)
      [] shape = "crlf" ->
             <<"SP", "LF">> \o JoinWith(lines, <<"CR", "LF">>)
                 \o <<"CR", "LF", "TAB">>
      [] shape = "fence" ->
             Fence \o <<"j", "s", "o", "n", "LF">>
                 \o JoinWith(lines, <<"LF">>) \o <<"LF">> \o Fence
      [] shape = "array" -> <<"[">> \o JoinWith(lines, <<",">>) \o <<"]">>
      [] shape = "bracket" ->
             <<"[", "x", "]", "SP">> \o JoinWith(lines, <<"LF">>)

ParseInit ==
    /\ ppc = "head"
    /\ \E shape \in OutputShapes, lines \in SeqsUpTo(SampleLines, MaxLines) :
          pRaw = ShapedOutput(shape, lines)
    /\ pOut = <<>>
    /\ pTried = <<>>
    /\ pLast = NoParse
    /\ pRes = NoParse
    /\ DispatcherOff
    /\ ValidatorOff
    /\ BatcherOff
    /\ TransportOff
    /\ BackoffOff
    /\ RoundTripOff
    /\ ExtractOff
    /\ RestOff

ParseFrame == UNCHANGED <<pRaw, dispatchVars, validatorVars, batcherVars,
                          transportVars, backoffVars, roundTripVars,
                          extractVars,
                          restVars>>

\* ParseTranslatedLines: CR LF to LF, stripCodeFences, TrimSpace, the test
\* for the empty output and the one for the "[" of an array.
ParseHead ==
    /\ ppc = "head"
    /\ pOut' = normalizeOutput(pRaw)
    /\ IF pOut' = <<>>
       THEN /\ pRes' = PFail("none", PErr("none", "empty"))
            /\ ppc' = "done"
       ELSE /\ pRes' = pRes
            /\ ppc' = IF HasPrefix(pOut', <<"[">>) THEN "array" ELSE "braces"
    /\ UNCHANGED <<pTried, pLast>>
    /\ ParseFrame

\* return parseWireItemsJSONArray(out)
ParseArray ==
    /\ ppc = "array"
    /\ pLast' = parseWireItemsJSONArray(pOut)
    /\ pTried' = Append(pTried, [tier |-> "array", ok |-> pLast'.ok])
    /\ pRes' = pLast'
    /\ ppc' = "done"
    /\ UNCHANGED pOut
    /\ ParseFrame

\* An order of the fallback tiers that passes over the one next in line.
skipTier(tier) ==
    CASE tier = "braces" -> "linesRepair"
      [] tier = "lines" -> "segmentsRepair"
      [] OTHER -> "strict"

\* The position after the given fallback tier has failed: the tier the
\* function calls next, or the strict parse for its error.
nextTier(tier) ==
    CASE tier = "braces" -> "lines"
      [] tier = "lines" -> "linesRepair"
      [] tier = "linesRepair" -> "segmentsRepair"
      [] OTHER -> "strict"

\* if res, err := tier(out); err == nil { return res, nil }
ParseTier(tier) ==
    /\ ppc = tier
    /\ pLast' = RunTier(tier, pOut)
    /\ pTried' = Append(pTried, [tier |-> tier, ok |-> pLast'.ok])
    /\ IF pLast'.ok
       THEN /\ pRes' = pLast'
            /\ ppc' = "done"
       ELSE /\ pRes' = pRes
            /\ ppc' = nextTier(tier)
    /\ UNCHANGED pOut
    /\ ParseFrame

ParseBraces == ParseTier("braces")

ParseLines == ParseTier("lines")

ParseLinesRepair == ParseTier("linesRepair")

ParseSegmentsRepair == ParseTier("segmentsRepair")

\* _, err := parseWireItemsByLines(out); return nil, err
ParseStrict ==
    /\ ppc = "strict"
    /\ LET r == parseWireItemsByLines(pOut)
       IN pRes' = IF r.ok THEN POk("lines", <<>>, 0) ELSE r
    /\ ppc' = "done"
    /\ UNCHANGED <<pOut, pTried, pLast>>
    /\ ParseFrame

ParseNext ==
    \/ ParseHead
    \/ ParseArray
    \/ ParseBraces
    \/ ParseLines
    \/ ParseLinesRepair
    \/ ParseSegmentsRepair
    \/ ParseStrict

ParseSpec == ParseInit /\ [][ParseNext]_vars

\* ------------------------------------- FormatForTranslation and back again

\* The characters of the texts: a letter, and the ones json.Marshal escapes
\* or the scanners of the decoder look for.
TextAlphabet == {"a", "LF", "CR", "QUOTE", "BACKSLASH", "{", "}", "<"}

\* Texts of the records of a list: the ones of SampleTexts, the empty text,
\* and texts with a line feed, a lone carriage return, a backslash before a
\* quote, and braces.
ListTexts ==
    SampleTexts \cup {<<>>, <<"a", "LF", "a">>, <<"CR", "a">>,
                      <<"BACKSLASH", "QUOTE">>, <<"}", "{">>}

\* The idxs of the records: one digit, and two.
RoundTripIdxs == {1, MaxRoundTripIdx}

\* idxs and texts of equal length, as runOneBatch passes them: one record
\* with any text over TextAlphabet, or several with texts of ListTexts.
RoundTripInit ==
    /\ rtpc = "format"
    /\ \E n \in 1..MaxRoundTripRecords :
          /\ rtIdxs \in [1..n -> RoundTripIdxs]
          /\ rtTexts \in [1..n -> IF n = 1
                                  THEN SeqsUpTo(TextAlphabet, MaxRoundTripLen)
                                  ELSE ListTexts]
    /\ rtWire = <<>>
    /\ rtRes = NoParse
    /\ DispatcherOff
    /\ ValidatorOff
    /\ BatcherOff
    /\ TransportOff
    /\ BackoffOff
    /\ ParserOff
    /\ ExtractOff
    /\ RestOff

RoundTripFrame == UNCHANGED <<rtIdxs, rtTexts, dispatchVars, validatorVars,
                              batcherVars, transportVars, backoffVars,
                              parserVars, extractVars,
                              restVars>>

\* FormatForTranslation(idxs, texts)
RoundTripFormat ==
    /\ rtpc = "format"
    /\ rtWire' = FormatForTranslation(rtIdxs, rtTexts)
    /\ rtpc' = "parse"
    /\ UNCHANGED rtRes
    /\ RoundTripFrame

\* ParseTranslatedLines(out) on what FormatForTranslation returned.
RoundTripParse ==
    /\ rtpc = "parse"
    /\ rtRes' = ParseTranslatedLinesText(rtWire)
    /\ rtpc' = "done"
    /\ UNCHANGED rtWire
    /\ RoundTripFrame

RoundTripNext == RoundTripFormat \/ RoundTripParse

RoundTripSpec == RoundTripInit /\ [][RoundTripNext]_vars

\* ------------------------------------------- extractIdxAndTextBestEffort

\* The pieces of a text as a service writes it that lets quotes go
\* unescaped: a letter, a space, a brace, a comma and a quote as they are,
\* and a quote, a line feed and a backslash escaped.
TextPieces ==
    {"a", "SP", "}", ",", "QUOTE", "EQUOTE", "ELF", "EBACKSLASH"}

\* The character a piece stands for.
PieceChar(pc) ==
    CASE pc = "EQUOTE" -> "QUOTE"
      [] pc = "ELF" -> "LF"
      [] pc = "EBACKSLASH" -> "BACKSLASH"
      [] OTHER -> pc

\* What is written for a piece.
PieceWritten(pc) ==
    CASE pc = "EQUOTE" -> <<"BACKSLASH", "QUOTE">>
      [] pc = "ELF" -> <<"BACKSLASH", "n">>
      [] pc = "EBACKSLASH" -> <<"BACKSLASH", "BACKSLASH">>
      [] OTHER -> <<pc>>

\* The text the pieces stand for.
PiecesText(pieces) == [i \in 1..Len(pieces) |-> PieceChar(pieces[i])]

RECURSIVE PiecesWritten(_)
PiecesWritten(pieces) ==
    IF Len(pieces) = 0 THEN <<>>
    ELSE PieceWritten(pieces[1]) \o PiecesWritten(Tail(pieces))

ExtractInit ==
    /\ xpc = "call"
    /\ xIdx \in 1..MaxExtractIdx
    /\ xText \in SeqsUpTo(TextPieces, MaxExtractLen)
    /\ xObj = RawWireItem(xIdx, PiecesWritten(xText))
    /\ xRes = NoExtract
    /\ DispatcherOff
    /\ ValidatorOff
    /\ BatcherOff
    /\ TransportOff
    /\ BackoffOff
    /\ ParserOff
    /\ RoundTripOff
    /\ RestOff

\* idx, text, ok, sErr := extractIdxAndTextBestEffort(line)
ExtractCall ==
    /\ xpc = "call"
    /\ xRes' = extractIdxAndTextBestEffort(xObj)
    /\ xpc' = "done"
    /\ UNCHANGED <<xIdx, xText, xObj, dispatchVars, validatorVars,
                   batcherVars, transportVars, backoffVars, parserVars,
                   roundTripVars, restVars>>

ExtractNext == ExtractCall

ExtractSpec == ExtractInit /\ [][ExtractNext]_vars

\* -------------------------------- extractJSONObjectSegmentsWithOffsets

\* The characters of the texts handed to the scanner: the braces, the quote,
\* the backslash, a letter and a space.
SegmentChars == {"{", "}", "QUOTE", "BACKSLASH", "a", "SP"}

SegmentsInit ==
    /\ gpc = "call"
    /\ gText \in SeqsUpTo(SegmentChars, MaxSegmentLen)
    /\ gRes = <<>>
    /\ DispatcherOff
    /\ ValidatorOff
    /\ BatcherOff
    /\ TransportOff
    /\ BackoffOff
    /\ FormatOff
    /\ RunOff

\* objs := extractJSONObjectSegmentsWithOffsets(s)
SegmentsCall ==
    /\ gpc = "call"
    /\ gRes' = extractJSONObjectSegmentsWithOffsets(gText)
    /\ gpc' = "done"
    /\ UNCHANGED <<gText, dispatchVars, validatorVars, batcherVars,
                   transportVars, backoffVars, formatVars, runVars>>

SegmentsNext == SegmentsCall

SegmentsSpec == SegmentsInit /\ [][SegmentsNext]_vars

\* ------------------------------------------------------------------- Run

DefaultMaxBatchChars == 7000

DefaultMaxWorkers == 2

\* The identifiers of Options: a string that is empty or not.
Names == {"", "set"}

\* The budgets of Options and the request timeout.
Budgets == (0 - MaxOption)..MaxOption

OptionsSet ==
    [InputPath : Names, WorkDir : Names, TargetLanguage : Names,
     Model : Names, OutputPath : Names, MaxBatchChars : Budgets,
     MaxWorkers : Budgets, RetryMaxAttempts : Budgets,
     RetryParseMaxAttempts : Budgets, RequestTimeout : Budgets]

\* The budget as given when it is positive, else its default.
OrDefault(n, default) == IF n <= 0 THEN default ELSE n

\* The options with every budget that is not positive set to its default,
\* and a negative timeout to 0.
Defaulted(opts) ==
    [opts EXCEPT
        !.MaxBatchChars = OrDefault(@, DefaultMaxBatchChars),
        !.MaxWorkers = OrDefault(@, DefaultMaxWorkers),
        !.RetryMaxAttempts = OrDefault(@, 1),
        !.RetryParseMaxAttempts = OrDefault(@, 1),
        !.RequestTimeout = IF @ < 0 THEN 0 ELSE @]

\* A budget that is not positive is an error.
RejectBudgets(opts) ==
    IF \/ opts.MaxBatchChars <= 0
       \/ opts.MaxWorkers <= 0
       \/ opts.RetryMaxAttempts <= 0
       \/ opts.RetryParseMaxAttempts <= 0
    THEN "budget must be positive"
    ELSE "nil"

\* The budgets are never an error.
budgetErr(opts) == "nil"

\* validateAndDefaultOptions
validateAndDefaultOptions(opts) ==
    IF opts.InputPath = ""
    THEN [opts |-> <<>>, err |-> "input path is required"]
    ELSE IF opts.WorkDir = ""
    THEN [opts |-> <<>>, err |-> "workdir is required"]
    ELSE IF opts.TargetLanguage = ""
    THEN [opts |-> <<>>, err |-> "target language is required"]
    ELSE IF opts.Model = ""
    THEN [opts |-> <<>>, err |-> "model is required"]
    ELSE IF budgetErr(opts) # "nil"
    THEN [opts |-> <<>>, err |-> budgetErr(opts)]
    ELSE IF opts.OutputPath = ""
    THEN [opts |-> <<>>, err |-> "output is required"]
    ELSE [opts |-> Defaulted(opts), err |-> "nil"]

\* The documents readSubtitles can return: records with ids 1..n in order
\* (srt.ValidateSequentialIdx, srt.Reindex), each with its timing and its
\* text, a text being a language and what is said.
Subtitles ==
    UNION {{s \in [1..n -> [Idx : 1..n, FromTime : {10, 20}, ToTime : {15, 25},
                             Text : {<<"en", "a">>, <<"en", "b">>}]] :
              \A i \in 1..n : s[i].Idx = i /\ s[i].ToTime = s[i].FromTime + 5} :
           n \in 0..MaxSubs}

\* The text the service gives for a record.
TranslationOf(sub) == <<"es", sub.Text[2]>>

\* What the workers of translateBatches can have merged when wg.Wait()
\* returns: the translations of some of the records.
MergedMaps(subs) ==
    {[id \in ids |-> TranslationOf(subs[id])] : ids \in SUBSET (1..Len(subs))}

\* applyTranslations changing the records it is given.
applyTranslationsInPlace(subs, texts) ==
    [subs |-> [i \in 1..Len(subs) |->
                  IF subs[i].Idx \in DOMAIN texts
                  THEN [subs[i] EXCEPT !.Text = texts[subs[i].Idx]]
                  ELSE subs[i]],
     out |-> [i \in 1..Len(subs) |->
                  IF subs[i].Idx \in DOMAIN texts
                  THEN [subs[i] EXCEPT !.Text = texts[subs[i].Idx]]
                  ELSE subs[i]]]

\* applyTranslations: the records it was given, as they are after the call,
\* and outSubs.
applyTranslations(subs, texts) ==
    [subs |-> subs,
     out |-> [i \in 1..Len(subs) |->
                  IF subs[i].Idx \in DOMAIN texts
                  THEN [subs[i] EXCEPT !.Text = texts[subs[i].Idx]]
                  ELSE subs[i]]]

RunInit ==
    /\ runpc = "validate"
    /\ runOpts \in OptionsSet
    /\ runSubs = <<>>
    /\ runTexts = <<>>
    /\ runOut = <<>>
    /\ runErr = "nil"
    /\ runDone = {}
    /\ DispatcherOff
    /\ ValidatorOff
    /\ BatcherOff
    /\ TransportOff
    /\ BackoffOff
    /\ FormatOff
    /\ SegmentsOff

RunFrame ==
    UNCHANGED <<dispatchVars, validatorVars, batcherVars, transportVars,
                backoffVars, formatVars, segmentVars>>

\* Run returns err.
RunFail(err) ==
    /\ runErr' = err
    /\ runpc' = "returned"

\* opts, err := validateAndDefaultOptions(opts)
RunValidate ==
    /\ runpc = "validate"
    /\ IF validateAndDefaultOptions(runOpts).err # "nil"
       THEN /\ RunFail(validateAndDefaultOptions(runOpts).err)
            /\ UNCHANGED runOpts
       ELSE /\ runOpts' = validateAndDefaultOptions(runOpts).opts
            /\ runpc' = "read"
            /\ UNCHANGED runErr
    /\ UNCHANGED <<runSubs, runTexts, runOut, runDone>>
    /\ RunFrame

\* subs, err := readSubtitles(opts.InputPath)
RunRead ==
    /\ runpc = "read"
    /\ runDone' = runDone \cup {"read"}
    /\ \/ /\ RunFail("read error")
          /\ UNCHANGED runSubs
       \/ /\ runSubs' \in Subtitles
          /\ runpc' = "translate"
          /\ UNCHANGED runErr
    /\ UNCHANGED <<runOpts, runTexts, runOut>>
    /\ RunFrame

\* What errCh can hold when wg.Wait() returns: nothing, or the error of the
\* first batch that ended in one.
ReportedErrors(subs) ==
    IF Len(subs) = 0 THEN {<<>>}
    ELSE {<<>>, <<TransportError(1)>>, <<DecodeError(1, 1)>>,
          <<CtxError("canceled")>>}

\* What a run of translateBatches adds to the history: requests were sent,
\* texts were merged, a batch ended in an error.
Happened(subs, texts, ch) ==
    (IF Len(subs) > 0 THEN {"request"} ELSE {})
        \cup (IF DOMAIN texts # {} THEN {"merge"} ELSE {})
        \cup (IF Len(ch) > 0 THEN {"batch error"} ELSE {})

\* batches, err := buildBatches(...); translatedTexts, err :=
\* translateBatches(ctx, opts, &client, batches): the workers ask for the
\* batches and merge some of them, some batch or none ends in an error, the
\* context of the caller ends or not, and translateBatches returns.
RunTranslate ==
    /\ runpc = "translate"
    /\ \E texts \in MergedMaps(runSubs) :
       \E ch \in ReportedErrors(runSubs) :
       \E cx \in {"nil", "canceled", "deadline"} :
          /\ runDone' = runDone \cup Happened(runSubs, texts, ch)
          /\ runTexts' = translateBatchesReturn(
                             firstErr(ch), nonCanceledContextErr(cx), texts).texts
          /\ IF translateBatchesReturn(
                    firstErr(ch), nonCanceledContextErr(cx), texts).err # NoErr
             THEN RunFail(translateBatchesReturn(
                             firstErr(ch), nonCanceledContextErr(cx), texts).err.kind)
             ELSE /\ runpc' = "apply"
                  /\ UNCHANGED runErr
    /\ UNCHANGED <<runOpts, runSubs, runOut>>
    /\ RunFrame

\* outSubs := applyTranslations(subs, translatedTexts)
RunApply ==
    /\ runpc = "apply"
    /\ runSubs' = applyTranslations(runSubs, runTexts).subs
    /\ runOut' = applyTranslations(runSubs, runTexts).out
    /\ runDone' = runDone \cup {"apply"}
    /\ runpc' = "write"
    /\ UNCHANGED <<runOpts, runTexts, runErr>>
    /\ RunFrame

\* writtenPath, err := writeOutput(opts, outSubs)
RunWrite ==
    /\ runpc = "write"
    /\ runDone' = runDone \cup {"write"}
    /\ \/ RunFail("write error")
       \/ /\ runpc' = "returned"
          /\ UNCHANGED runErr
    /\ UNCHANGED <<runOpts, runSubs, runTexts, runOut>>
    /\ RunFrame

RunNext == RunValidate \/ RunRead \/ RunTranslate \/ RunApply \/ RunWrite

RunSpec == RunInit /\ [][RunNext]_vars

\* ---------------------------------------------------------------- properties

\* An error of a batch itself, as opposed to a context error.
RealErrorKinds == {"transport", "decode", "validation"}

\* The map a fully successful job of nb batches holds.
FullMap ==
    [id \in UNION {expectedOf(b) : b \in 1..nb} |-> Translated(batchOf(id), id)]

\* C1: every key of the shared result map is an id of a batch whose decoded
\* response validateParsedBatch accepted for that same batch; a response that
\* fails decoding or validation writes nothing; no step removes a key.
C1_KeysOnlyFromAcceptedBatches ==
    [][/\ DOMAIN translatedTexts \subseteq DOMAIN translatedTexts'
       /\ \A k \in DOMAIN translatedTexts' : batchOf(k) \in accepted'
       /\ \A w \in Workers :
             (wpc[w] = "http" /\ wpc'[w] \in {"psleep", "tsleep", "report"})
                 => translatedTexts' = translatedTexts]_vars

\* A batch waits to be retried after a rejected response, none of its ids is in
\* the map, and the map already holds another batch.
C1_Witness ==
    \E w \in Workers :
        /\ wpc[w] = "psleep"
        /\ DOMAIN translatedTexts # {}
        /\ expectedOf(wbatch[w]) \cap DOMAIN translatedTexts = {}

\* C2: errCh never holds more than one error, the one it holds is the first one
\* reported, later reports are dropped, and translateBatches returns that first
\* error whenever a worker reported one.
C2_FirstErrorWins ==
    /\ Len(errCh) <= 1
    /\ (errCh # <<>> => errCh[1] = firstReported)
    /\ (mpc = "returned" /\ firstReported # NoErr => retErr = firstReported)

\* Two workers have both reported an error and the channel holds one.
C2_Witness ==
    /\ nWorkers = 2
    /\ \A w \in Workers : wpc[w] = "cancel"
    /\ Len(errCh) = 1

\* C3: when the caller never cancels and a worker ended a batch with a terminal
\* error, translateBatches returns a terminal error of a batch and never the
\* "context canceled" that its own cancel() produced in the other workers.
C3_OwnCancelNeverReturned ==
    (mpc = "returned" /\ parentErr = "nil" /\ firstReported # NoErr)
        => (retErr.kind \in RealErrorKinds /\ ~IsCanceled(retErr))

\* One worker has failed and cancelled; another is about to report the
\* "context canceled" it met, and the caller has not cancelled.
C3_Witness ==
    /\ parentErr = "nil"
    /\ errCh # <<>>
    /\ errCh[1].kind \in RealErrorKinds
    /\ \E w \in Workers : wpc[w] = "report" /\ IsCanceled(werr[w])

\* C4: translateBatches returns only when every worker has exited, and nothing
\* writes to the result map after it has returned.
C4_ReturnAfterAllWorkers ==
    [][/\ (mpc' = "returned" => \A w \in Workers : wpc'[w] = "done")
       /\ (mpc = "returned" => translatedTexts' = translatedTexts)]_vars

\* A job of two workers has returned a map with entries.
C4_Witness ==
    /\ mpc = "returned"
    /\ nWorkers = 2
    /\ DOMAIN retMap # {}
    /\ \A w \in Workers : wpc[w] = "done"

\* C5: every job ends: translateBatches returns and the feeder has exited,
\* whether or not a worker failed and whether or not the caller cancels.
C5_JobTerminates == <>(mpc = "returned" /\ fpc = "closed")

\* Every worker has exited on an error while the feeder is blocked on its send.
C5_Witness ==
    /\ fpc = "parked"
    /\ \A w \in Workers : wpc[w] = "done"
    /\ firstReported # NoErr

C7_NoDequeueAfterCancel == [][ownCancel => fnext' = fnext]_vars

\* C7: a batch received after the cancellation is never processed: its
\* runOneBatch returns ctx.Err() before the limiter and before any request, its
\* response is never accepted and none of its ids is merged; after a worker's
\* cancel() each other worker receives at most one such batch.
C7_LateBatchNeverProcessed ==
    /\ \A w \in Workers : wbatch[w] \in lateDequeued => wpc[w] = "start"
    /\ lateDequeued \cap accepted = {}
    /\ \A b \in lateDequeued : expectedOf(b) \cap DOMAIN translatedTexts = {}
    /\ Cardinality(lateDequeued) <= nWorkers
    /\ (parentErr = "nil" => Cardinality(lateDequeued) <= nWorkers - 1)

\* A batch was received after a worker's cancel(), the caller not having cancelled.
C7_Witness ==
    /\ ownCancel
    /\ parentErr = "nil"
    /\ lateDequeued # {}

\* C8 as stated: when the caller cancels the job and no batch failed on its own,
\* the job does not end with an error.
C8_CallerCancelIsNoFailure ==
    (mpc = "returned" /\ parentErr = "canceled"
        /\ firstReported.kind \notin RealErrorKinds) => retErr = NoErr

\* C9 as stated: with the limiter on, no HTTP request of a batch starts without
\* a limiter.Wait of its own having returned nil just before.
C9_EveryRequestGated == rpsOn => \A w \in Workers : ~wungated[w]

\* C10: a batch is attempted at most RetryParseMaxAttempts times; a rejected
\* response on an earlier attempt leads, after the sleep, to the next attempt
\* of the same batch unless the context ended; the decode or validation error
\* that fails the batch is that of attempt RetryParseMaxAttempts.
C10_ParseRetryBudget ==
    [][\A w \in Workers :
          /\ wattempt'[w] <= RetryParseMaxAttempts
          /\ (werr'[w].kind \in {"decode", "validation"}
                 => werr'[w].attempt = RetryParseMaxAttempts)
          /\ ((wpc[w] = "http" /\ wpc'[w] = "psleep")
                 => wattempt[w] < RetryParseMaxAttempts)
          /\ ((wpc[w] = "psleep" /\ wpc'[w] # "psleep")
                 => \/ /\ wpc'[w] = "http"
                       /\ wattempt'[w] = wattempt[w] + 1
                       /\ wbatch'[w] = wbatch[w]
                    \/ /\ ctxDone
                       /\ wpc'[w] = "report"
                       /\ IsCanceled(werr'[w]))]_vars

\* A batch failed with the validation error of its last attempt.
C10_Witness ==
    \E w \in Workers :
        /\ wpc[w] = "report"
        /\ werr[w].kind = "validation"
        /\ werr[w].attempt = RetryParseMaxAttempts

\* The number of positions of the sequence of idxs ids that hold id.
Occurrences(ids, id) == Cardinality({i \in 1..Len(ids) : ids[i] = id})

\* The idx values of the decoded lines, in order.
IdxsOf(parsed) == [i \in 1..Len(parsed) |-> parsed[i].Idx]

\* ids is a rearrangement of idxs.
IsPermutation(ids, idxs) ==
    /\ Len(ids) = Len(idxs)
    /\ \A id \in SeqToSet(ids) \cup SeqToSet(idxs) :
           Occurrences(ids, id) = Occurrences(idxs, id)

\* C11: validateParsedBatch accepts a decoded output exactly when its idx
\* values are a permutation of the batch's expected ids (a missing, foreign or
\* duplicate id and a different count are rejected), and on acceptance it
\* returns the parsed lines unchanged.
C11_AcceptsExactlyPermutations ==
    vpc = "done" =>
        /\ (~vOut.err <=> IsPermutation(IdxsOf(vParsed), vIdxs))
        /\ (~vOut.err => vOut.lines = vParsed)
        /\ (vOut.err => vOut.lines = <<>>)

\* An output in another order than the batch was accepted.
C11_Witness ==
    /\ vpc = "done"
    /\ ~vOut.err
    /\ Len(vIdxs) = 2
    /\ IdxsOf(vParsed) # vIdxs
    /\ vOut.lines = vParsed

\* The payload sent for a batch, FormatForTranslation(b.idxs, b.texts), counted
\* with one separator byte for each of its items.
PayloadChars(b) == Len(FormatForTranslation(b.idxs, b.texts)) + 1

\* The idxs, and the texts, of the batches one after another.
RECURSIVE ConcatIdxs(_)
ConcatIdxs(bs) ==
    IF Len(bs) = 0 THEN <<>>
    ELSE ConcatIdxs(SubSeq(bs, 1, Len(bs) - 1)) \o bs[Len(bs)].idxs

RECURSIVE ConcatTexts(_)
ConcatTexts(bs) ==
    IF Len(bs) = 0 THEN <<>>
    ELSE ConcatTexts(SubSeq(bs, 1, Len(bs) - 1)) \o bs[Len(bs)].texts

\* C12: for every record sequence and every budget > 0, a batch of more than
\* one record has a payload, as FormatForTranslation encodes it and counted
\* with one separator byte per record, of at most maxChars bytes.
C12_BatchWithinBudget ==
    /\ \A k \in 1..Len(bBatches) :
          Len(bBatches[k].idxs) > 1 => PayloadChars(bBatches[k]) <= bMax
    /\ (bpc = "batch" /\ Len(bIdxs) > 1)
          => PayloadChars([idxs |-> bIdxs, texts |-> bTexts]) <= bMax
    /\ (bpc = "batch" /\ Len(bIdxs) > 0)
          => bChars = PayloadChars([idxs |-> bIdxs, texts |-> bTexts])

\* buildBatches has returned a batch of two records that fills the budget to
\* the byte, one of them with a CR LF that the encoding shortens.
C12_Witness ==
    /\ bpc = "done"
    /\ \E k \in 1..Len(bBatches) :
          /\ Len(bBatches[k].idxs) = 2
          /\ PayloadChars(bBatches[k]) = bMax
          /\ \E j \in 1..2 : bBatches[k].texts[j] = <<"CR", "LF">>

\* C13: the ids and the texts of the batches, concatenated in order, are the
\* input sequence: every record is in exactly one batch, the batches are
\* contiguous slices and the order is kept.
C13_BatchesPartitionInput ==
    /\ (bpc \in {"loop", "done"}) =>
          /\ ConcatIdxs(bBatches) = [i \in 1..bStart |-> bSubs[i].Idx]
          /\ ConcatTexts(bBatches) = [i \in 1..bStart |-> bSubs[i].Text]
    /\ bpc = "done" => bStart = Len(bSubs)
    /\ \A k \in 1..Len(bBatches) : Len(bBatches[k].idxs) = Len(bBatches[k].texts)

\* Three records were split into two batches or more.
C13_Witness ==
    /\ bpc = "done"
    /\ Len(bSubs) = 3
    /\ Len(bBatches) >= 2
    /\ ConcatIdxs(bBatches) = <<1, 2, 3>>

\* C14: every batch holds at least one record, a record larger than the budget
\* becomes a batch of its own, every buildBatch call moves start forward by at
\* least one, and buildBatches ends for every input and every budget.
C14_BatchesNonEmptyAndTerminate ==
    /\ [](\A k \in 1..Len(bBatches) : Len(bBatches[k].idxs) >= 1)
    /\ [][/\ bStart' >= bStart
          /\ (bBatches' # bBatches => bStart' > bStart)]_vars
    /\ <>(bpc = "done")

\* buildBatches has ended with a batch that holds one record larger than the
\* budget, followed by another batch.
C14_Witness ==
    /\ bpc = "done"
    /\ Len(bBatches) >= 2
    /\ Len(bBatches[1].idxs) = 1
    /\ PayloadChars(bBatches[1]) > bMax

\* A status that is neither 429 nor 5xx.
NotRetryableCode(code) == code # 429 /\ ~(code >= 500 /\ code <= 599)

\* 401, 403 and 429: the statuses that reject a credential.
RejectionCodes == {401, 403, 429}

\* C15: requestWithRetry calls the unit of work at most MaxAttempts times and,
\* unless the context had ended, at least once; it makes attempt k+1 only
\* after attempt k failed with a decision to retry and k < MaxAttempts; the
\* error it returns, other than the context's, is that of the last attempt.
C15_AttemptsWithinBudget ==
    [][/\ tcalls' <= effectiveMaxAttempts(tMaxAttempts)
       /\ (tcalls' # tcalls /\ tcalls >= 1)
              => /\ tcalls' = tcalls + 1
                 /\ tlast.err # NoTErr
                 /\ tlast.retry
                 /\ tlast.err.attempt = tcalls
                 /\ tcalls < effectiveMaxAttempts(tMaxAttempts)
       /\ (tres'.done /\ tcalls' = 0) => tres'.err.kind = "ctx"
       /\ (tres'.done /\ tres'.err.kind \notin {"nil", "ctx"})
              => (tres'.err = tlast'.err /\ tres'.err.attempt = tcalls')]_vars

\* All of three attempts failed with a retryable status and the call returned
\* the error of the third.
C15_Witness ==
    /\ tres.done
    /\ tMaxAttempts = 3
    /\ tcalls = 3
    /\ tres.err = TErr("http", 503, 3)

\* C16 as stated: a response with a status outside 2xx that is neither 429 nor
\* 5xx ends the call at once with that error.
C16_OtherStatusEndsCall ==
    [][(tpc = "do" /\ tpc' # "do" /\ tlast'.err.kind = "http"
           /\ NotRetryableCode(tlast'.err.code))
          => (tres'.done /\ tres'.err = tlast'.err)]_vars

\* C16: a response with a status outside 2xx that is neither 429 nor 5xx, and
\* that is not a 401 or 403 met while two or more keys are configured, ends the
\* call at once with that error, whatever is left of the budget; no attempt
\* follows it.
C16_FatalStatusEndsCall ==
    [][/\ (tpc = "do" /\ tpc' # "do" /\ tlast'.err.kind = "http"
              /\ NotRetryableCode(tlast'.err.code)
              /\ ~(tlast'.err.code \in RejectionCodes /\ tnKeys > 1))
             => (tres'.done /\ tres'.err = tlast'.err)
       /\ (tres.done /\ tres.err.kind = "http") => tcalls' = tcalls]_vars

\* A call with one key and attempts left ended on its first response, a 401.
C16_Witness ==
    /\ tres.done
    /\ tnKeys = 1
    /\ tMaxAttempts = 3
    /\ tcalls = 1
    /\ tres.err = TErr("http", 401, 1)

\* C17 as stated: with two or more keys, the attempt that follows a 401, 403 or
\* 429 is sent with another key than the rejected attempt.
C17_NextAttemptUsesOtherKey ==
    (tnKeys >= 2 /\ tpc = "do" /\ trejKey # -1) => tkey # trejKey

\* C18 as stated: with two or more keys and no other call in between, a call
\* that succeeds has moved the pointer (0 at first) by exactly one, so that the
\* next call starts with another key than this call did, and a call that fails
\* has not moved it.
C18_PointerMovesOncePerSuccess ==
    (tnKeys >= 2 /\ tothers = 0 /\ tres.done) =>
        IF tres.err = NoTErr
        THEN apiKeyRR = 1 /\ pickAPIKey(tnKeys, apiKeyRR, FALSE) # tfirstKey
        ELSE apiKeyRR = 0

\* C19: once the context is cancelled requestWithRetry starts no attempt: at
\* the top of its loop it returns the context's error, and from the backoff
\* sleep it returns the context's error, or comes to the top of the loop,
\* without calling the unit of work.
C19_NoAttemptAfterCancel ==
    [][/\ (tcalls' # tcalls => ~tCancelled)
       /\ (tCancelled /\ tpc = "top" /\ tpc' # tpc)
              => (tres'.done /\ tres'.err.kind = "ctx")
       /\ (tCancelled /\ tpc = "sleep" /\ tpc' # tpc)
              => (tpc' = "top" \/ (tres'.done /\ tres'.err.kind = "ctx"))]_vars

\* A call with attempts left, whose latest attempt was to be retried, returned
\* the context's error.
C19_Witness ==
    /\ tres.done
    /\ tres.err.kind = "ctx"
    /\ tCancelled
    /\ tlast.retry
    /\ tcalls >= 1
    /\ tcalls < effectiveMaxAttempts(tMaxAttempts)

\* C20: for every attempt from 1 up, every policy and every draw of the jitter
\* in [0,1), what computeBackoff returns is at least 0 and at most the MaxDelay
\* in effect (the policy's, or 10 s when that is not positive).
C20_BackoffWithinBounds ==
    kpc = "ret" => (kD >= 0 /\ kD <= kMaxDelay /\ kMaxDelay > 0)

\* A call whose exponential left the word, with a jitter drawn above one
\* half, returned MaxDelay.
C20_Witness ==
    /\ kpc = "ret"
    /\ kJitter > 0
    /\ 2 * kDraw > DrawDen
    /\ kBaseDelay * 2 ^ (kAttempt - 1) > DurMax
    /\ kD = kMaxDelay

\* A Retry-After header that carries the whole number n.
RetryAfterInt(n) == [kind |-> "int", secs |-> n]

\* C21 as stated: when an attempt gets a 429 with Retry-After: 0 and attempts
\* remain, the next attempt follows with a delay of zero, whatever the policy.
C21_RetryAfterZeroIsImmediate ==
    (tpc = "sleep" /\ tlast.err.kind = "http" /\ tlast.err.code = 429
        /\ tretryAfter = RetryAfterInt(0)) => tsleep = 0

SamePairs(lines, idxs, texts) ==
    /\ Len(lines) = Len(idxs)
    /\ \A i \in 1..Len(idxs) :
           lines[i] = [Idx |-> idxs[i], Text |-> texts[i]]

\* C23 as stated: ParseTranslatedLines(FormatForTranslation(idxs, texts))
\* succeeds and gives back exactly the original (idx, text) pairs in order,
\* whatever the texts hold.
C23_RoundTripIsExact ==
    rtpc = "done" => rtRes.ok /\ SamePairs(rtRes.lines, rtIdxs, rtTexts)

\* C23: ParseTranslatedLines(FormatForTranslation(idxs, texts)) succeeds and
\* gives back the idxs in order, each with its text in which every carriage
\* return followed by a line feed has become the line feed alone; a text
\* without that pair comes back exactly.
C23_RoundTripUpToCRLF ==
    rtpc = "done" =>
        /\ rtRes.ok
        /\ SamePairs(rtRes.lines, rtIdxs,
                     [i \in 1..Len(rtTexts) |-> ReplaceCRLF(rtTexts[i])])

\* Two records came back, one with a line feed in its text and one with a
\* backslash and a quote.
C23_Witness ==
    /\ rtpc = "done"
    /\ rtRes.ok
    /\ Len(rtRes.lines) = 2
    /\ rtRes.lines[1].Text = <<"a", "LF", "a">>
    /\ rtRes.lines[2].Text = <<"BACKSLASH", "QUOTE">>

\* The tiers ParseTranslatedLines has called so far.
TriedTiers == [i \in 1..Len(pTried) |-> pTried[i].tier]

IsPrefix(a, b) == Len(a) <= Len(b) /\ SubSeq(b, 1, Len(a)) = a

\* The n-th tier of the order is the first of it that succeeds on out.
FirstToSucceed(order, n, out) ==
    /\ RunTier(order[n], out).ok
    /\ \A m \in 1..(n - 1) : ~RunTier(order[m], out).ok

OffendingLine(line) ==
    /\ TrimSpace(line) # <<>>
    /\ \/ ~UnmarshalWireItem(TrimSpace(line)).ok
       \/ UnmarshalWireItem(TrimSpace(line)).Idx <= 0

\* The text as an error may quote it: whole when it has at most
\* AbbreviationMax characters, else cut to that length, three dots included.
CappedExcerpt(line) ==
    IF Len(line) <= AbbreviationMax THEN line
    ELSE SubSeq(line, 1, AbbreviationMax - 3) \o <<".", ".", ".">>

\* The error names the first offending line of out and quotes it.
NamesFirstOffendingLine(err, out) ==
    LET lines == SplitLines(out)
    IN /\ err.tier = "lines"
       /\ err.line \in 1..Len(lines)
       /\ OffendingLine(lines[err.line])
       /\ \A n \in 1..(err.line - 1) : ~OffendingLine(lines[n])
       /\ err.excerpt = CappedExcerpt(TrimSpace(lines[err.line]))
       /\ Len(err.excerpt) <= AbbreviationMax

C26_ResultNonEmptyWithPositiveIdx ==
    ppc = "done" =>
        /\ pRes.ok =>
               /\ Len(pRes.lines) >= 1
               /\ \A i \in 1..Len(pRes.lines) : pRes.lines[i].Idx >= 1
        /\ (\A i \in 1..Len(pOut) : IsWS(pOut[i])) => ~pRes.ok

\* The line repair gave the result: two ParsedLines, one of them salvaged.
C26_Witness ==
    /\ ppc = "done"
    /\ pRes.ok
    /\ pRes.tier = "linesRepair"
    /\ pRes.salvaged = 1
    /\ Len(pRes.lines) = 2

\* The lines of out that are not blank, trimmed, in order.
NonBlankLines(out) ==
    LET lines == SplitLines(out)
    IN SelectSeq([n \in 1..Len(lines) |-> TrimSpace(lines[n])],
                 LAMBDA line : line # <<>>)

\* C27: when parseWireItemsByLinesWithRepair succeeds, its output holds one
\* ParsedLine for every non-blank line, in the order of the lines; a line
\* that parses strictly as a wire item is given as the strict parse gives it
\* and is not counted, and salvaged is the number of lines that failed the
\* strict parse and were repaired.
C27_OnlyBrokenLinesAreSalvaged ==
    (pLast.tier = "linesRepair" /\ pLast.ok) =>
        LET lines == NonBlankLines(pOut)
            broken == {k \in 1..Len(lines) : ~UnmarshalWireItem(lines[k]).ok}
        IN /\ Len(pLast.lines) = Len(lines)
           /\ \A k \in (1..Len(lines)) \ broken :
                  pLast.lines[k] =
                      [Idx |-> UnmarshalWireItem(lines[k]).Idx,
                       Text |-> UnmarshalWireItem(lines[k]).Text]
           /\ \A k \in broken :
                  /\ extractIdxAndTextBestEffort(lines[k]).ok
                  /\ pLast.lines[k].Idx = extractIdxAndTextBestEffort(lines[k]).Idx
           /\ pLast.salvaged = Cardinality(broken)

\* parseWireItemsByLinesWithRepair has given two lines: the first, with an
\* escaped quote and a brace in its text, from the strict parse, the second
\* salvaged with its two unescaped quotes.
C27_Witness ==
    /\ pLast.tier = "linesRepair"
    /\ pLast.ok
    /\ pLast.salvaged = 1
    /\ pLast.lines = <<[Idx |-> 2, Text |-> <<"QUOTE", "}">>],
                       [Idx |-> 3, Text |-> <<"QUOTE", "b", "QUOTE">>]>>

\* The first piece after the i-th that is no space; past the end, where the
\* closing quote of the text stands, when there is none.
NextPiece(pieces, i) ==
    LET ps == {j \in (i + 1)..Len(pieces) : pieces[j] # "SP"}
    IN IF ps = {} THEN Len(pieces) + 1 ELSE SetMin(ps)

\* The i-th piece is an unescaped quote that the text goes on after with,
\* spaces apart, a closing brace, or a comma and a quote: an unescaped quote
\* of the text or the one that closes it.
LooksLikeEnd(pieces, i) ==
    LET k == NextPiece(pieces, i)
        k2 == NextPiece(pieces, k)
    IN /\ pieces[i] = "QUOTE"
       /\ k <= Len(pieces)
       /\ \/ pieces[k] = "}"
          \/ (pieces[k] = "," /\ (k2 > Len(pieces) \/ pieces[k2] = "QUOTE"))

\* C28 as stated: the repair takes a quote for the end of the text only
\* before "}" or a comma and a quote, keeps every other quote and decodes the
\* escapes, so the text it gives is the original one, nothing cut.
C28_RecoversOriginalText ==
    xpc = "done" =>
        /\ xRes.ok
        /\ xRes.Idx = xIdx
        /\ xRes.Text = PiecesText(xText)

\* C28: the repair takes for the end of the text the first unescaped quote
\* that is followed, after optional whitespace, by "}" or by a comma and,
\* after optional whitespace, a quote; every unescaped quote before it is
\* kept as a quote of the text and the escapes are decoded. The text it
\* gives is the original one when no unescaped quote inside the text is
\* followed in that way, and the original one cut before the first such
\* quote otherwise.
C28_RecoversTextUpToFirstLikelyEnd ==
    xpc = "done" =>
        LET ends == {i \in 1..Len(xText) : LooksLikeEnd(xText, i)}
            kept == IF ends = {} THEN Len(xText) ELSE SetMin(ends) - 1
        IN /\ xRes.ok
           /\ xRes.Idx = xIdx
           /\ xRes.Text = PiecesText(SubSeq(xText, 1, kept))

\* A text with an unescaped quote, a comma and an escaped quote came back
\* whole.
C28_Witness ==
    /\ xpc = "done"
    /\ xRes.ok
    /\ xText = <<"QUOTE", ",", "EQUOTE">>
    /\ xRes.Text = <<"QUOTE", ",", "QUOTE">>

\* C29: with a transport budget of one attempt and the batch-retry budget of
\* two, when the service answers the first call for each batch with
\* unparsable content and the second with valid NDJSON for it, and the caller
\* does not cancel, the service is never called a third time for a batch, and
\* the job returns without error, with the full map, after exactly two calls
\* for each batch.
C29_ParseRetryEndToEnd ==
    (mock = "unparsableFirst" /\ retryMax = 1 /\ parentErr = "nil")
        => /\ \A b \in BatchIds : calls[b] <= 2
           /\ mpc = "returned"
                 => /\ retErr = NoErr
                    /\ retMap = FullMap
                    /\ \A b \in 1..nb : calls[b] = 2

\* A job of two batches and two workers has returned the full map after the
\* first call for each batch came back unparsable and the second valid.
C29_Witness ==
    /\ mock = "unparsableFirst"
    /\ retryMax = 1
    /\ parentErr = "nil"
    /\ nb = 2
    /\ nWorkers = 2
    /\ mpc = "returned"
    /\ retErr = NoErr
    /\ retMap = FullMap
    /\ \A b \in 1..nb : calls[b] = 2

\* C30: when every response of the service is a 2xx with valid NDJSON for
\* exactly the ids of the requested batch, and the caller does not cancel,
\* no batch is asked for twice and no worker retries at either level, and
\* the job returns without error, after one call for each batch, the map
\* that holds every record id with its translated text.
C30_NoFailuresOneCallPerBatch ==
    (mock = "valid" /\ parentErr = "nil")
        => /\ \A b \in BatchIds : calls[b] <= 1
           /\ \A w \in Workers :
                 /\ wattempt[w] <= 1
                 /\ wtry[w] <= 1
                 /\ wpc[w] \notin {"tsleep", "psleep"}
           /\ mpc = "returned"
                 => /\ retErr = NoErr
                    /\ retMap = FullMap
                    /\ \A b \in 1..nb : calls[b] = 1

\* A job of two batches, with two workers, a limiter and a transport budget
\* of two attempts, has returned the full map after one call for each batch.
C30_Witness ==
    /\ mock = "valid"
    /\ parentErr = "nil"
    /\ nb = 2
    /\ nWorkers = 2
    /\ rpsOn
    /\ retryMax = 2
    /\ mpc = "returned"
    /\ retErr = NoErr
    /\ retMap = FullMap
    /\ \A b \in 1..nb : calls[b] = 1

\* The options lack the input path or the output path, or hold a budget that
\* is not positive.
MissingPathOrBudget(opts) ==
    \/ opts.InputPath = ""
    \/ opts.OutputPath = ""
    \/ opts.MaxBatchChars <= 0
    \/ opts.MaxWorkers <= 0
    \/ opts.RetryMaxAttempts <= 0
    \/ opts.RetryParseMaxAttempts <= 0

\* The options lack one of the identifiers Run requires.
MissingIdentifier(opts) ==
    \/ opts.InputPath = ""
    \/ opts.WorkDir = ""
    \/ opts.TargetLanguage = ""
    \/ opts.Model = ""
    \/ opts.OutputPath = ""

\* C31 as stated: when the input path or the output path is missing, or a
\* budget (max batch chars, worker count, retry attempts) is not positive,
\* Run returns an error from its validation, before it reads the input or
\* issues a request.
C31_Original ==
    [][(runpc = "validate" /\ MissingPathOrBudget(runOpts))
          => /\ runpc' = "returned"
             /\ runErr' # "nil"
             /\ runDone' = {}]_vars

\* C31: when the input path, the work directory, the target language, the
\* model or the output path is missing, Run returns an error from its
\* validation, before it reads the input or issues a request; otherwise the
\* validation is no error and Run goes on to read the input, with every
\* budget that is not positive replaced by its default (7000 characters, 2
\* workers, 1 attempt, 1 attempt) and every positive budget as given.
C31_MissingIdentifiersFailFast ==
    [][runpc = "validate"
          => IF MissingIdentifier(runOpts)
             THEN /\ runpc' = "returned"
                  /\ runErr' # "nil"
                  /\ runDone' = {}
             ELSE /\ runpc' = "read"
                  /\ runErr' = "nil"
                  /\ runDone' = {}
                  /\ runOpts'.MaxBatchChars =
                        IF runOpts.MaxBatchChars > 0
                        THEN runOpts.MaxBatchChars ELSE 7000
                  /\ runOpts'.MaxWorkers =
                        IF runOpts.MaxWorkers > 0 THEN runOpts.MaxWorkers ELSE 2
                  /\ runOpts'.RetryMaxAttempts =
                        IF runOpts.RetryMaxAttempts > 0
                        THEN runOpts.RetryMaxAttempts ELSE 1
                  /\ runOpts'.RetryParseMaxAttempts =
                        IF runOpts.RetryParseMaxAttempts > 0
                        THEN runOpts.RetryParseMaxAttempts ELSE 1]_vars

\* Run, given a budget of characters and a number of workers that were not
\* positive, has gone on past its validation with their defaults and has
\* read the input.
C31_Witness ==
    /\ runpc = "translate"
    /\ runErr = "nil"
    /\ runOpts.MaxBatchChars = DefaultMaxBatchChars
    /\ runOpts.MaxWorkers = DefaultMaxWorkers
    /\ runOpts.RetryMaxAttempts = 1
    /\ "read" \in runDone

\* C32: applyTranslations returns as many records as it was given, in the
\* same order and with the same ids and timings; a record whose id has an
\* entry in the map gets that text, a record without an entry keeps its
\* text, and the records it was given are as they were before the call.
C32_ApplyKeepsShapeAndInput ==
    [][runpc = "apply"
          => /\ runSubs' = runSubs
             /\ Len(runOut') = Len(runSubs)
             /\ \A i \in 1..Len(runSubs) :
                   /\ runOut'[i].Idx = runSubs[i].Idx
                   /\ runOut'[i].FromTime = runSubs[i].FromTime
                   /\ runOut'[i].ToTime = runSubs[i].ToTime
                   /\ runOut'[i].Text =
                         IF runSubs[i].Idx \in DOMAIN runTexts
                         THEN runTexts[runSubs[i].Idx]
                         ELSE runSubs[i].Text]_vars

\* applyTranslations has returned for two records of which only the second
\* has an entry in the map: the first keeps its text, the second has the
\* text of the map, and the records given still hold their own texts.
C32_Witness ==
    /\ runpc = "write"
    /\ Len(runSubs) = 2
    /\ DOMAIN runTexts = {2}
    /\ Len(runOut) = 2
    /\ runOut[1].Text = runSubs[1].Text
    /\ runOut[2].Text = runTexts[2]
    /\ runSubs[2].Text # runTexts[2]

\* The latest attempt failed in a way that is retried and is no rejection: a
\* 5xx, or a timeout or temporary error of the network.
RetryableNotRejected(d) ==
    /\ d.retry
    /\ \/ d.err.kind = "net"
       \/ d.err.kind = "http" /\ d.err.code >= 500 /\ d.err.code <= 599

\* C33 as stated: in a call with two or more keys, the attempt that follows
\* a retryable failure that is no rejection is sent with the key of the
\* failed attempt.
C33_SameKeyAfterPlainFailure ==
    [][(/\ tnKeys >= 2
        /\ tpc = "top"
        /\ tpc' = "do"
        /\ tattempt > 1
        /\ RetryableNotRejected(tlast))
          => tkey' = tkey]_vars

\* The set of ids holds each batch wholly or not at all.
WholeBatches(S) ==
    \A b \in BatchIds : expectedOf(b) \subseteq S \/ expectedOf(b) \cap S = {}

\* The ids of the batch the holder of the mutex is merging.
BeingMerged ==
    IF translatedMu = 0 THEN {} ELSE expectedOf(wbatch[translatedMu])

TouchedBatches == {b \in BatchIds : expectedOf(b) \cap DOMAIN translatedTexts # {}}

\* C35: a batch is handed to a worker only when no worker holds or has held
\* it and none of its ids is in the map: the batch handed over is the next
\* of the feeder, every batch held or merged is an earlier one, and the
\* feeder moves on with the hand-over; no two workers hold the same batch;
\* and every write to the map is for an id that is not in it yet.
C35_EachBatchOnce ==
    /\ [](/\ \A w \in Workers : wbatch[w] < fnext
          /\ \A b \in TouchedBatches : b < fnext
          /\ \A w1, w2 \in Workers :
                (w1 # w2 /\ wbatch[w1] # 0) => wbatch[w1] # wbatch[w2])
    /\ [][/\ \A w \in Workers :
                (wbatch'[w] # wbatch[w] /\ wbatch'[w] # 0)
                   => /\ wbatch[w] = 0
                      /\ wbatch'[w] = fnext
                      /\ fnext' = fnext + 1
          /\ \A w \in Workers :
                (wpc[w] = "merge" /\ wmi'[w] # wmi[w])
                   => /\ wparsed[w][wmi[w]].Idx \notin DOMAIN translatedTexts
                      /\ DOMAIN translatedTexts' =
                            DOMAIN translatedTexts \cup {wparsed[w][wmi[w]].Idx}
          /\ \A id \in DOMAIN translatedTexts :
                /\ id \in DOMAIN translatedTexts'
                /\ translatedTexts'[id] = translatedTexts[id]]_vars

\* With two workers, the second batch is being merged by a worker on its
\* second attempt at it, after the first batch was merged.
C35_Witness ==
    /\ nWorkers = 2
    /\ nb = 2
    /\ \E w \in Workers :
          /\ wpc[w] = "merge"
          /\ wbatch[w] = 2
          /\ wattempt[w] = 2
          /\ wmi[w] = 2
    /\ expectedOf(1) \subseteq DOMAIN translatedTexts

\* What a scan of the text knows after each of its characters (0: before
\* the first): whether it is inside a string literal, whether the next
\* character is escaped, and the depth of the braces outside the literals,
\* where a closing brace at depth 0 counts for nothing.
ScanStates(s) ==
    LET st[i \in 0..Len(s)] ==
            IF i = 0 THEN [inStr |-> FALSE, esc |-> FALSE, depth |-> 0]
            ELSE IF st[i - 1].inStr
            THEN IF st[i - 1].esc THEN [st[i - 1] EXCEPT !.esc = FALSE]
                 ELSE IF s[i] = "BACKSLASH" THEN [st[i - 1] EXCEPT !.esc = TRUE]
                 ELSE IF s[i] = "QUOTE" THEN [st[i - 1] EXCEPT !.inStr = FALSE]
                 ELSE st[i - 1]
            ELSE IF s[i] = "QUOTE" THEN [st[i - 1] EXCEPT !.inStr = TRUE]
            ELSE IF s[i] = "{" THEN [st[i - 1] EXCEPT !.depth = @ + 1]
            ELSE IF s[i] = "}" /\ st[i - 1].depth > 0
            THEN [st[i - 1] EXCEPT !.depth = @ - 1]
            ELSE st[i - 1]
    IN st

\* The positions of the braces that open an object at the top level.
TopOpens(s) ==
    {a \in 1..Len(s) : /\ s[a] = "{"
                       /\ ~ScanStates(s)[a - 1].inStr
                       /\ ScanStates(s)[a - 1].depth = 0}

\* The positions of the braces that close an object at the top level.
TopCloses(s) ==
    {b \in 1..Len(s) : /\ s[b] = "}"
                       /\ ~ScanStates(s)[b - 1].inStr
                       /\ ScanStates(s)[b - 1].depth = 1}

\* The top-level balanced segments of the text, each as its first and last
\* position: an opening brace at the top level with the first brace after it
\* that closes at the top level.
TopLevelSegments(s) ==
    {ab \in TopOpens(s) \X TopCloses(s) :
        /\ ab[1] < ab[2]
        /\ \A b \in TopCloses(s) : ~(ab[1] < b /\ b < ab[2])}

\* C36: the segments extractJSONObjectSegmentsWithOffsets returns are exactly
\* the top-level balanced brace segments of the text, each with its offset
\* and its text from the opening to the closing brace, in the order of the
\* text and without overlap; braces inside a string literal, a closing brace
\* at depth 0 and an object that is not closed give no segment.
C36_SegmentsAreTopLevelObjects ==
    gpc = "done"
        => /\ {<<gRes[k].Start, gRes[k].Start + Len(gRes[k].JSON) - 1>> :
                  k \in 1..Len(gRes)} = TopLevelSegments(gText)
           /\ Len(gRes) = Cardinality(TopLevelSegments(gText))
           /\ \A k \in 1..Len(gRes) :
                 gRes[k].JSON =
                    SubSeq(gText, gRes[k].Start,
                           gRes[k].Start + Len(gRes[k].JSON) - 1)
           /\ \A k \in 1..(Len(gRes) - 1) :
                 gRes[k].Start + Len(gRes[k].JSON) - 1 < gRes[k + 1].Start

\* The scanner has returned the one object of a text whose string holds a
\* closing brace.
C36_Witness ==
    /\ gpc = "done"
    /\ gText = <<"{", "QUOTE", "}", "QUOTE", "}">>
    /\ gRes = <<[Start |-> 1, JSON |-> gText]>>

\* C37 as stated: with jitter 0 and positive BaseDelay and MaxDelay,
\* computeBackoff(attempt) is the smaller of MaxDelay and
\* BaseDelay * 2^(attempt-1) for every attempt from 1 up, also when the
\* product is more than a duration can hold.
C37_ExponentialNeverWraps ==
    kpc = "ret"
        => kD = IF kBaseDelay * 2 ^ (kAttempt - 1) < kMaxDelay
                THEN kBaseDelay * 2 ^ (kAttempt - 1)
                ELSE kMaxDelay

\* C38 as stated: when translateBatches returns a nil error, the map it
\* returns has an entry for every id of every batch, in every interleaving,
\* a cancellation by the caller while no worker is in a batch included.
C38_NilErrorMeansFullMap ==
    (mpc = "returned" /\ retErr = NoErr)
        => DOMAIN retMap = UNION {expectedOf(b) : b \in 1..nb}

\* C39: when a batch has ended in a terminal error, translateBatches returns
\* the nil map together with an error, also when texts of other batches
\* were merged before, and Run returns that error at once: it has no
\* output records, has applied nothing and has written nothing.
C39_NoPartialDocumentOnFailure ==
    "batch error" \in runDone
        => /\ runpc = "returned"
           /\ runErr \in {"transport", "decode", "canceled"}
           /\ runTexts = NilMap
           /\ runOut = <<>>
           /\ "apply" \notin runDone
           /\ "write" \notin runDone

\* Run has returned the error of a batch after the texts of another batch
\* had been merged.
C39_Witness ==
    /\ runpc = "returned"
    /\ runErr = "decode"
    /\ Len(runSubs) = 2
    /\ runDone = {"read", "request", "merge", "batch error"}

\* C40: an error of TranslateBatch ends runOneBatch at once: the step that
\* hands a transport or context error to the worker starts no request and no
\* batch-level attempt; a failed request that is retried (a 429, a 5xx, a
\* timeout, a 2xx with empty or missing content) is retried in the same
\* batch-level attempt, as the next attempt of the transport; a batch-level
\* attempt starts only after the sleep that follows an output that could
\* not be used; so the requests for the batch a worker holds are at most
\* those of its earlier attempts, each within the transport budget, and
\* the requests for a batch never exceed parseRetry.MaxAttempts times the
\* transport MaxAttempts.
C40_RequestsWithinBothBudgets ==
    /\ [](/\ \A b \in BatchIds : calls[b] <= RetryParseMaxAttempts * retryMax
          /\ \A w \in Workers :
                /\ wattempt[w] <= RetryParseMaxAttempts
                /\ wtry[w] <= retryMax
                /\ (wbatch[w] # 0 /\ wattempt[w] >= 1)
                      => calls[wbatch[w]]
                            <= (wattempt[w] - 1) * retryMax + wtry[w])
    /\ [][\A w \in Workers :
             /\ (werr'[w] # werr[w]
                    /\ werr'[w].kind \in {"transport", "canceled"})
                   => /\ wpc'[w] = "report"
                      /\ calls' = calls
             /\ (wpc[w] = "http" /\ wpc'[w] = "tsleep")
                   => /\ wattempt'[w] = wattempt[w]
                      /\ wtry[w] < retryMax
             /\ (wpc[w] = "tsleep" /\ wpc'[w] = "http")
                   => /\ wattempt'[w] = wattempt[w]
                      /\ wtry'[w] = wtry[w] + 1
             /\ (wattempt[w] >= 1 /\ wattempt'[w] > wattempt[w])
                   => /\ wpc[w] = "psleep"
                      /\ wattempt'[w] = wattempt[w] + 1
                      /\ wtry'[w] = 1]_vars

\* A worker waits for the answer to the last request both budgets allow for
\* its batch: the second request of its second attempt, the fourth in all.
C40_Witness ==
    /\ mock = "counting"
    /\ retryMax = 2
    /\ wpc[1] = "http"
    /\ wbatch[1] = 1
    /\ wattempt[1] = RetryParseMaxAttempts
    /\ wtry[1] = 2
    /\ calls[1] = RetryParseMaxAttempts * retryMax

====
